---- MODULE Spec2Model ----
(***************************************************************************)
(* A model of the gedcom-go line parser (package parser), its line         *)
(* tokenizer ScanGEDCOMLines driven by a bufio.Scanner, and the document   *)
(* builder's parent-stack walk.                                            *)
(*                                                                         *)
(* Strings are sequences of one-character strings, so that the string      *)
(* functions of the code (TrimRight, Fields, Atoi, slicing) are computed   *)
(* character by character as the code computes them.                       *)
(***************************************************************************)
EXTENDS Integers, Sequences, FiniteSets, TLC

(***************************************************************************)
(* Characters                                                              *)
(***************************************************************************)
CR == "\r"
LF == "\n"
SP == " "
TAB == "\t"

\* unicode.IsSpace restricted to the characters the model uses.
IsSpace(c) == c \in {SP, TAB, CR, LF}

Digits == {"0", "1", "2", "3", "4", "5", "6", "7", "8", "9"}

DigitVal(c) ==
    CASE c = "0" -> 0 [] c = "1" -> 1 [] c = "2" -> 2 [] c = "3" -> 3
      [] c = "4" -> 4 [] c = "5" -> 5 [] c = "6" -> 6 [] c = "7" -> 7
      [] c = "8" -> 8 [] c = "9" -> 9

Letters ==
    {"A", "B", "C", "D", "E", "F", "G", "H", "I", "J", "K", "L", "M",
     "N", "O", "P", "Q", "R", "S", "T", "U", "V", "W", "X", "Y", "Z",
     "a", "b", "c", "d", "e", "f", "g", "h", "i", "j", "k", "l", "m",
     "n", "o", "p", "q", "r", "s", "t", "u", "v", "w", "x", "y", "z"}

\* The characters validateTag lets through.
IsTagChar(c) == c \in Letters \cup Digits \cup {"_"}

(***************************************************************************)
(* Program constants                                                       *)
(***************************************************************************)
MaxNestingDepth == 100
maxTagLength == 31

(***************************************************************************)
(* String functions of the Go library, as the parser uses them             *)
(***************************************************************************)
\* s[from:] with a 0-based byte index.
SliceFrom(s, from) == SubSeq(s, from + 1, Len(s))

\* strings.TrimRight(s, cutset)
RECURSIVE TrimRight(_, _)
TrimRight(s, cutset) ==
    IF s = <<>> THEN s
    ELSE IF s[Len(s)] \in cutset THEN TrimRight(SubSeq(s, 1, Len(s) - 1), cutset)
    ELSE s

RECURSIVE TrimLeftSpace(_)
TrimLeftSpace(s) ==
    IF s = <<>> THEN s
    ELSE IF IsSpace(s[1]) THEN TrimLeftSpace(Tail(s))
    ELSE s

\* strings.TrimSpace(s)
TrimSpace(s) == TrimLeftSpace(TrimRight(s, {SP, TAB, CR, LF}))

\* strings.Fields(s): the maximal runs of non-space characters, in order.
RECURSIVE FieldsFrom(_, _, _, _)
FieldsFrom(s, i, cur, acc) ==
    IF i > Len(s) THEN (IF cur = <<>> THEN acc ELSE Append(acc, cur))
    ELSE IF IsSpace(s[i])
         THEN FieldsFrom(s, i + 1, <<>>, IF cur = <<>> THEN acc ELSE Append(acc, cur))
         ELSE FieldsFrom(s, i + 1, Append(cur, s[i]), acc)

Fields(s) == FieldsFrom(s, 1, <<>>, <<>>)

\* strings.Count(s, c) for a one-character c.
Count(s, c) == Cardinality({i \in 1..Len(s) : s[i] = c})

HasPrefix(s, c) == s # <<>> /\ s[1] = c
HasSuffix(s, c) == s # <<>> /\ s[Len(s)] = c

RECURSIVE DigitsValue(_, _)
DigitsValue(s, acc) ==
    IF s = <<>> THEN acc ELSE DigitsValue(Tail(s), acc * 10 + DigitVal(s[1]))

\* strconv.Atoi(s) on its fast path (len(s) < 19, where no overflow is
\* possible): an optional sign, then one or more decimal digits.
Atoi(s) ==
    LET signed == s # <<>> /\ s[1] \in {"-", "+"}
        body   == IF signed THEN Tail(s) ELSE s
        ok     == body # <<>> /\ \A i \in 1..Len(body) : body[i] \in Digits
        n      == IF ok THEN DigitsValue(body, 0) ELSE 0
    IN  [ok |-> ok, val |-> IF signed /\ s[1] = "-" THEN 0 - n ELSE n]

(***************************************************************************)
(* Parse errors (package parser, errors)                                   *)
(***************************************************************************)
NoErr == [type |-> "nil"]
NoLine == [type |-> "nil"]

\* newParseError(line, message, context)
newParseError(line, message, context) ==
    [type |-> "ParseError", Line |-> line, Message |-> message,
     Context |-> context, Err |-> NoErr]

\* A faulty variant of wrapParseError that drops the cause.
wrapParseErrorDropsCause(line, message, context, err) ==
    [type |-> "ParseError", Line |-> line, Message |-> message,
     Context |-> context, Err |-> NoErr]

\* wrapParseError(line, message, context, err)
wrapParseError(line, message, context, err) ==
    [type |-> "ParseError", Line |-> line, Message |-> message,
     Context |-> context, Err |-> err]

PrevPrefix == <<"p", "r", "e", "v", ":", " ">>
LineInfix == <<" ", "|", " ", "l", "i", "n", "e", ":", " ">>

\* enrichParseError(err, prevLine, currentLine)
enrichParseError(err, prevLine, currentLine) ==
    IF err.type # "ParseError" THEN err
    ELSE LET context == IF prevLine # <<>>
                        THEN PrevPrefix \o prevLine \o LineInfix \o currentLine
                        ELSE currentLine
         IN  [type |-> "ParseError", Line |-> err.Line, Message |-> err.Message,
              Context |-> context, Err |-> err.Err]

(***************************************************************************)
(* Line validation                                                         *)
(***************************************************************************)
\* A faulty variant of validateTag whose length limit is off by one.
validateTagOffByOne(tag) ==
    IF tag = <<>> THEN [type |-> "InvalidTagError", Tag |-> tag, Reason |-> "empty"]
    ELSE IF Len(tag) >= maxTagLength
         THEN [type |-> "InvalidTagError", Tag |-> tag, Reason |-> "too long"]
    ELSE IF \E i \in 1..Len(tag) : ~IsTagChar(tag[i])
         THEN [type |-> "InvalidTagError", Tag |-> tag,
               Reason |-> "contains invalid characters"]
    ELSE NoErr

\* validateTag(tag)
validateTag(tag) ==
    IF tag = <<>> THEN [type |-> "InvalidTagError", Tag |-> tag, Reason |-> "empty"]
    ELSE IF Len(tag) > maxTagLength
         THEN [type |-> "InvalidTagError", Tag |-> tag, Reason |-> "too long"]
    ELSE IF \E i \in 1..Len(tag) : ~IsTagChar(tag[i])
         THEN [type |-> "InvalidTagError", Tag |-> tag,
               Reason |-> "contains invalid characters"]
    ELSE NoErr

\* validateXRef(xref)
validateXRef(xref) ==
    IF Len(xref) <= 2
    THEN [type |-> "InvalidXRefError", XRef |-> xref, Reason |-> "empty"]
    ELSE IF Count(xref, "@") # 2
         THEN [type |-> "InvalidXRefError", XRef |-> xref,
               Reason |-> "must start and end with @"]
    ELSE NoErr

\* fieldStartIndex(line, fieldIndex): the 0-based index of the first byte of
\* the fieldIndex-th field, or -1.
RECURSIVE fieldStartLoop(_, _, _, _, _)
fieldStartLoop(line, fieldIndex, i, inField, field) ==
    IF i >= Len(line) THEN -1
    ELSE IF IsSpace(line[i + 1])
         THEN fieldStartLoop(line, fieldIndex, i + 1, FALSE, field)
    ELSE IF ~inField
         THEN (IF field = fieldIndex THEN i
               ELSE fieldStartLoop(line, fieldIndex, i + 1, TRUE, field + 1))
    ELSE fieldStartLoop(line, fieldIndex, i + 1, inField, field)

\* A faulty variant of fieldStartIndex that finds the field after the one asked for.
fieldStartIndexNextField(line, fieldIndex) ==
    IF fieldIndex < 0 THEN -1 ELSE fieldStartLoop(line, fieldIndex + 1, 0, FALSE, 0)

fieldStartIndex(line, fieldIndex) ==
    IF fieldIndex < 0 THEN -1 ELSE fieldStartLoop(line, fieldIndex, 0, FALSE, 0)

(***************************************************************************)
(* Parser.ParseLine                                                        *)
(***************************************************************************)
\* A Parser value: [lineNumber, lastLevel, maxDepth].
\* NewParser()
NewParser == [lineNumber |-> 0, lastLevel |-> -1, maxDepth |-> MaxNestingDepth]

\* The zero value Parser{} (what a test that sets p.maxDepth = 0 builds on).
ZeroParser == [lineNumber |-> 0, lastLevel |-> 0, maxDepth |-> 0]

\* A faulty variant of Reset that keeps the line counter.
ResetKeepsCounter(q) == [q EXCEPT !.lastLevel = -1]

\* Parser.Reset()
Reset(q) == [q EXCEPT !.lineNumber = 0, !.lastLevel = -1]

\* A faulty variant of SetMaxNestingDepth that stores any value.
SetMaxNestingDepthUnchecked(q, max) == [q EXCEPT !.maxDepth = max]

\* Parser.SetMaxNestingDepth(max)
SetMaxNestingDepth(q, max) ==
    IF max <= 0 THEN [q EXCEPT !.maxDepth = MaxNestingDepth]
    ELSE [q EXCEPT !.maxDepth = max]

\* The nesting limit ParseLine applies: a stored cap <= 0 counts as the default.
depthLimit(maxDepth) == IF maxDepth <= 0 THEN MaxNestingDepth ELSE maxDepth

\* A faulty variant of exceedsDepth that is off by one.
exceedsDepthOffByOne(level, limit) == level >= limit

\* "if level > limit": the line is nested deeper than the limit.
exceedsDepth(level, limit) == level > limit

\* A faulty variant of levelJump that lets a jump of two through.
levelJumpOfTwo(lastLevel, level) == lastLevel >= 0 /\ level > lastLevel + 2

\* "if p.lastLevel >= 0 && level > p.lastLevel+1": the level jumps by more than one.
levelJump(lastLevel, level) == lastLevel >= 0 /\ level > lastLevel + 1

\* Parser.ParseLine(input): [p: the parser afterwards, line, err].
ParseLine(q, input) ==
    LET n     == q.lineNumber + 1
        q1    == [q EXCEPT !.lineNumber = n]
        line  == TrimRight(input, {CR, LF})
        parts == Fields(line)
        fail(e) == [p |-> q1, line |-> NoLine, err |-> e]
    IN
    IF TrimSpace(line) = <<>>
    THEN fail(newParseError(n, "empty line", input))
    ELSE IF Len(parts) < 2
    THEN fail(newParseError(n, "line must have at least level and tag", line))
    ELSE
    LET lv    == Atoi(parts[1])
        level == lv.val
        limit == depthLimit(q.maxDepth)
    IN
    IF ~lv.ok
    THEN fail(wrapParseError(n, "invalid level number", line,
              [type |-> "InvalidLevelError", Raw |-> parts[1], Reason |-> "not a number"]))
    ELSE IF level < 0
    THEN fail(wrapParseError(n, "level cannot be negative", line,
              [type |-> "InvalidLevelError", Raw |-> parts[1], Reason |-> "negative"]))
    ELSE IF exceedsDepth(level, limit)
    THEN fail(wrapParseError(n, "maximum nesting depth exceeded", line,
              [type |-> "InvalidLevelError", Raw |-> parts[1], Reason |-> "exceeds max depth"]))
    ELSE IF levelJump(q.lastLevel, level)
    THEN fail(wrapParseError(n, "level jump exceeds one", line,
              [type |-> "LevelMismatchError", Previous |-> q.lastLevel, Current |-> level]))
    ELSE
    LET isXRef == HasPrefix(parts[2], "@") /\ HasSuffix(parts[2], "@")
        xref   == IF isXRef THEN parts[2] ELSE <<>>
        xerr   == IF isXRef THEN validateXRef(xref) ELSE NoErr
    IN
    IF xerr.type # "nil"
    THEN fail(wrapParseError(n, "invalid xref %q: %s", line, xerr))
    ELSE IF isXRef /\ Len(parts) < 3
    THEN fail(newParseError(n, "line with xref must have a tag", line))
    ELSE
    LET tag           == IF isXRef THEN parts[3] ELSE parts[2]
        valueStartIdx == IF isXRef THEN 3 ELSE 2
        terr          == validateTag(tag)
    IN
    IF terr.type # "nil"
    THEN fail(wrapParseError(n,
              "invalid tag %q: %s (expected A-Z, 0-9, underscore, max length 31)",
              line, terr))
    ELSE
    LET valueStartPos == IF valueStartIdx < Len(parts)
                         THEN fieldStartIndex(line, valueStartIdx) ELSE -1
        value == IF valueStartPos >= 0 /\ valueStartPos < Len(line)
                 THEN SliceFrom(line, valueStartPos) ELSE <<>>
    IN  [p    |-> [q1 EXCEPT !.lastLevel = level],
         line |-> [type |-> "Line", Level |-> level, Tag |-> tag, Value |-> value,
                   XRef |-> xref, LineNumber |-> n],
         err  |-> NoErr]

(***************************************************************************)
(* ScanGEDCOMLines: the split function of the line tokenizer               *)
(***************************************************************************)
NoToken == [nil |-> TRUE, bytes |-> <<>>]
Token(bytes) == [nil |-> FALSE, bytes |-> bytes]

\* The least element of a non-empty set of numbers.
Min(S) == CHOOSE x \in S : \A y \in S : x <= y

\* A faulty variant of ScanGEDCOMLines that does not wait for the byte after a CR
\* that ends the buffer.
ScanGEDCOMLinesEagerCR(data, atEOF) ==
    IF atEOF /\ Len(data) = 0 THEN [advance |-> 0, token |-> NoToken]
    ELSE LET ends == {i \in 0..(Len(data) - 1) : data[i + 1] \in {CR, LF}} IN
         IF ends # {}
         THEN LET i == Min(ends) IN
              IF data[i + 1] = LF
              THEN [advance |-> i + 1, token |-> Token(SubSeq(data, 1, i))]
              ELSE IF i + 1 < Len(data) /\ data[i + 2] = LF
                   THEN [advance |-> i + 2, token |-> Token(SubSeq(data, 1, i))]
              ELSE [advance |-> i + 1, token |-> Token(SubSeq(data, 1, i))]
         ELSE IF atEOF THEN [advance |-> Len(data), token |-> Token(data)]
         ELSE [advance |-> 0, token |-> NoToken]

\* A faulty variant of ScanGEDCOMLines that is bufio.ScanLines: LF and CRLF only.
ScanGEDCOMLinesNoCR(data, atEOF) ==
    LET dropCR(t) == IF t # <<>> /\ t[Len(t)] = CR THEN SubSeq(t, 1, Len(t) - 1) ELSE t IN
    IF atEOF /\ Len(data) = 0 THEN [advance |-> 0, token |-> NoToken]
    ELSE LET ends == {i \in 0..(Len(data) - 1) : data[i + 1] = LF} IN
         IF ends # {}
         THEN LET i == Min(ends) IN
              [advance |-> i + 1, token |-> Token(dropCR(SubSeq(data, 1, i)))]
         ELSE IF atEOF THEN [advance |-> Len(data), token |-> Token(dropCR(data))]
         ELSE [advance |-> 0, token |-> NoToken]

\* A faulty variant of ScanGEDCOMLines that drops a last line without terminator.
ScanGEDCOMLinesDropsTail(data, atEOF) ==
    IF atEOF /\ Len(data) = 0 THEN [advance |-> 0, token |-> NoToken]
    ELSE LET ends == {i \in 0..(Len(data) - 1) : data[i + 1] \in {CR, LF}} IN
         IF ends # {}
         THEN LET i == Min(ends) IN
              IF data[i + 1] = LF
              THEN [advance |-> i + 1, token |-> Token(SubSeq(data, 1, i))]
              ELSE IF i + 1 < Len(data)
                   THEN (IF data[i + 2] = LF
                         THEN [advance |-> i + 2, token |-> Token(SubSeq(data, 1, i))]
                         ELSE [advance |-> i + 1, token |-> Token(SubSeq(data, 1, i))])
              ELSE IF ~atEOF THEN [advance |-> 0, token |-> NoToken]
              ELSE [advance |-> i + 1, token |-> Token(SubSeq(data, 1, i))]
         ELSE [advance |-> 0, token |-> NoToken]

\* ScanGEDCOMLines(data, atEOF): [advance, token]; the loop stops at the first
\* CR or LF of data, at the 0-based index i.
ScanGEDCOMLines(data, atEOF) ==
    IF atEOF /\ Len(data) = 0 THEN [advance |-> 0, token |-> NoToken]
    ELSE LET ends == {i \in 0..(Len(data) - 1) : data[i + 1] \in {CR, LF}} IN
         IF ends # {}
         THEN LET i == Min(ends) IN
              IF data[i + 1] = LF
              THEN [advance |-> i + 1, token |-> Token(SubSeq(data, 1, i))]
              ELSE IF i + 1 < Len(data)
                   THEN (IF data[i + 2] = LF
                         THEN [advance |-> i + 2, token |-> Token(SubSeq(data, 1, i))]
                         ELSE [advance |-> i + 1, token |-> Token(SubSeq(data, 1, i))])
              ELSE IF ~atEOF THEN [advance |-> 0, token |-> NoToken]
              ELSE [advance |-> i + 1, token |-> Token(SubSeq(data, 1, i))]
         ELSE IF atEOF THEN [advance |-> Len(data), token |-> Token(data)]
         ELSE [advance |-> 0, token |-> NoToken]

(***************************************************************************)
(* Inputs                                                                  *)
(***************************************************************************)
\* The most ParseLine calls explored after a NewParser/Reset.
MaxLines == 3

tHEAD    == <<"0", " ", "H", "E", "A", "D">>
tNAME    == <<"1", " ", "N", "A", "M", "E", " ", "J", " ", " ", "S">>
tGIVN    == <<"2", " ", "G", "I", "V", "N", " ", "J">>
tLEVEL3  == <<"3", " ", "X">>
tINVALID == <<"I", "N", "V", "A", "L", "I", "D">>
tEMPTY   == <<>>
tAT100   == <<"1", "0", "0", " ", "D">>
tDEEP    == <<"1", "0", "1", " ", "D", "E", "E", "P">>
tHEADCRLF == tHEAD \o <<CR, LF>>

\* The texts a scanner hands to ParseLine: tokens, so without CR or LF.
ScanTexts == {tHEAD, tNAME, tGIVN, tLEVEL3, tINVALID, tEMPTY, tAT100, tDEEP}

\* What a caller of ParseLine may pass: any string, terminators included.
DirectInputs == ScanTexts \cup {tHEADCRLF}

\* The longest raw byte stream, and the most logical lines of a styled stream.
MaxStream == 5
MaxLogical == 2

tTRLR == <<"0", " ", "T", "R", "L", "R">>

\* Raw streams: every byte sequence over a terminator-rich alphabet.
StreamBytes == {CR, LF, "a"}
RawStreams == UNION {[1..n -> StreamBytes] : n \in 0..MaxStream}

\* Logical lines (no CR, no LF in them) and the three ways to terminate them.
LogicalPool == {tHEAD, tTRLR, tEMPTY}
LogicalSeqs == UNION {[1..n -> LogicalPool] : n \in 0..MaxLogical}
Styles == {"LF", "CRLF", "CR"}
Terminator(style) ==
    CASE style = "LF" -> <<LF>> [] style = "CRLF" -> <<CR, LF>> [] style = "CR" -> <<CR>>

\* The byte stream of the lines ls, each followed by the terminator of style.
RECURSIVE Encode(_, _)
Encode(ls, style) ==
    IF ls = <<>> THEN <<>> ELSE Head(ls) \o Terminator(style) \o Encode(Tail(ls), style)

\* The arguments tried for SetMaxNestingDepth.
DepthArgs == {-1, 0, 2, MaxNestingDepth}

(***************************************************************************)
(* The document builder's walk over the parsed lines                       *)
(***************************************************************************)
NoDoc == [built |-> FALSE, nodes |-> <<>>]

\* The stack cut or padded (with 0, an empty slot) to hold slots 0..n-1.
RECURSIVE stackOfLen(_, _)
stackOfLen(stack, n) ==
    IF Len(stack) >= n THEN SubSeq(stack, 1, n) ELSE stackOfLen(Append(stack, 0), n)

\* One node per line, in line order: a record for a level-0 line, else a tag
\* whose parent is the node in stack slot level-1 (0 when that slot is empty).
\* stack[k + 1] is slot k: the index of the current node at level k, or 0.
RECURSIVE buildWalk(_, _, _, _)
buildWalk(ls, i, nodes, stack) ==
    IF i > Len(ls) THEN nodes
    ELSE LET L   == ls[i]
             idx == Len(nodes) + 1
         IN  IF L.Level = 0
             THEN buildWalk(ls, i + 1,
                      Append(nodes, [Level |-> 0, LineNumber |-> L.LineNumber, parent |-> 0]),
                      <<idx>>)
             ELSE LET slot == IF Len(stack) >= L.Level THEN stack[L.Level] ELSE 0 IN
                  buildWalk(ls, i + 1,
                      Append(nodes, [Level |-> L.Level, LineNumber |-> L.LineNumber,
                                     parent |-> slot]),
                      Append(stackOfLen(stack, L.Level), idx))

buildDocument(ls) == [built |-> TRUE, nodes |-> buildWalk(ls, 1, <<>>, <<>>)]

\* The depth of node i beneath its record root (the root is 0), -1 when the
\* node hangs under no record.
RECURSIVE depth(_, _)
depth(nodes, i) ==
    IF nodes[i].Level = 0 THEN 0
    ELSE IF nodes[i].parent = 0 THEN -1
    ELSE LET d == depth(nodes, nodes[i].parent) IN IF d < 0 THEN -1 ELSE d + 1

(***************************************************************************)
(* State                                                                   *)
(***************************************************************************)
VARIABLES
    p,         \* the Parser: [lineNumber, lastLevel, maxDepth]
    pc,        \* "idle", or the method whose scan loop is running
    lines,     \* local of Parse / ParseWithRecovery
    errs,      \* local of ParseWithRecovery
    prevLine,  \* local of Parse / ParseWithRecovery
    hist,      \* the ParseLine calls since NewParser/Reset: [input, line, err]
    ret,       \* the last call made and what it returned
    doc,       \* the Document the builder made of the last call's lines
    stream,    \* the bytes of the reader, all of them
    rest,      \* the bytes the reader has not handed out yet
    buf,       \* the scanner's buffered bytes, s.buf[s.start:s.end]
    eof,       \* the scanner has seen the reader's io.EOF
    tokens,    \* the tokens the scanner has delivered
    logical,   \* the logical lines a styled stream was made of
    style,     \* their terminator style, "raw" for a raw stream
    scanner,   \* the bufio.Scanner's buffer bounds and error: [start, size, err]
    dec,       \* a decode in progress: its input, options, lines, document, errors
    val,       \* a validation in progress: its document and the issues found
    exp        \* an export in progress: its records, xref map and errors

parserVars == <<p, pc, lines, errs, prevLine, hist, ret, doc>>
scanVars == <<stream, rest, buf, eof, tokens, logical, style>>
otherVars == <<scanner, dec, val, exp>>
vars == <<p, pc, lines, errs, prevLine, hist, ret, doc,
          stream, rest, buf, eof, tokens, logical, style,
          scanner, dec, val, exp>>

NoScan ==
    /\ stream = <<>>
    /\ rest = <<>>
    /\ buf = <<>>
    /\ eof = FALSE
    /\ tokens = <<>>
    /\ logical = <<>>
    /\ style = "raw"

\* The other subsystems at rest.
NoScanner == [start |-> 0, size |-> 0, err |-> "nil"]
NoOther ==
    /\ scanner = NoScanner
    /\ dec = [pc |-> "none"]
    /\ val = [pc |-> "none"]
    /\ exp = [pc |-> "none"]

NoRet == [op |-> "none", arg |-> 0, lines |-> <<>>, err |-> NoErr, errs |-> <<>>]

Init ==
    /\ p \in {NewParser, ZeroParser}
    /\ pc = "idle"
    /\ lines = <<>>
    /\ errs = <<>>
    /\ prevLine = <<>>
    /\ hist = <<>>
    /\ ret = NoRet
    /\ doc = NoDoc
    /\ NoScan
    /\ NoOther

(***************************************************************************)
(* Calls made on an idle parser                                            *)
(***************************************************************************)
CallReset ==
    /\ UNCHANGED <<scanVars, otherVars>>
    /\ pc = "idle"
    /\ doc' = NoDoc
    /\ p' = Reset(p)
    /\ hist' = <<>>
    /\ ret' = [NoRet EXCEPT !.op = "Reset"]
    /\ UNCHANGED <<pc, lines, errs, prevLine>>

CallSetMaxNestingDepth ==
    /\ UNCHANGED <<scanVars, otherVars>>
    /\ pc = "idle"
    /\ doc' = NoDoc
    /\ \E max \in DepthArgs :
          /\ p' = SetMaxNestingDepth(p, max)
          /\ ret' = [NoRet EXCEPT !.op = "SetMaxNestingDepth", !.arg = max]
    /\ UNCHANGED <<pc, lines, errs, prevLine, hist>>

\* A faulty variant of CallParseLine whose parser records the level of a line
\* as soon as it has read it, before the checks that may reject the line.
CallParseLineEagerLevel ==
    /\ UNCHANGED <<scanVars, otherVars>>
    /\ pc = "idle"
    /\ doc' = NoDoc
    /\ Len(hist) < MaxLines
    /\ \E input \in DirectInputs :
          LET r     == ParseLine(p, input)
              parts == Fields(TrimRight(input, {CR, LF}))
              lv    == IF Len(parts) >= 2 THEN Atoi(parts[1]) ELSE [ok |-> FALSE, val |-> 0]
          IN
          /\ p' = IF lv.ok /\ lv.val >= 0 THEN [r.p EXCEPT !.lastLevel = lv.val] ELSE r.p
          /\ hist' = Append(hist, [input |-> input, line |-> r.line, err |-> r.err])
          /\ ret' = [NoRet EXCEPT !.op = "ParseLine",
                                  !.lines = IF r.err.type = "nil" THEN <<r.line>> ELSE <<>>,
                                  !.err = r.err]
    /\ UNCHANGED <<pc, lines, errs, prevLine>>

CallParseLine ==
    /\ UNCHANGED <<scanVars, otherVars>>
    /\ pc = "idle"
    /\ doc' = NoDoc
    /\ Len(hist) < MaxLines
    /\ \E input \in DirectInputs :
          LET r == ParseLine(p, input) IN
          /\ p' = r.p
          /\ hist' = Append(hist, [input |-> input, line |-> r.line, err |-> r.err])
          /\ ret' = [NoRet EXCEPT !.op = "ParseLine",
                                  !.lines = IF r.err.type = "nil" THEN <<r.line>> ELSE <<>>,
                                  !.err = r.err]
    /\ UNCHANGED <<pc, lines, errs, prevLine>>

(***************************************************************************)
(* Parser.Parse: strict mode                                               *)
(***************************************************************************)
\* A faulty variant of strictFailure that returns the lines parsed so far.
strictFailureKeepsLines(parsed, err) ==
    [NoRet EXCEPT !.op = "Parse", !.lines = parsed, !.err = err]

\* "return nil, enrichParseError(err, prevLine, text)"
strictFailure(parsed, err) ==
    [NoRet EXCEPT !.op = "Parse", !.lines = <<>>, !.err = err]

\* p.Reset(); scanner := bufio.NewScanner(r); var lines; var prevLine
ParseBegin ==
    /\ UNCHANGED <<scanVars, otherVars>>
    /\ pc = "idle"
    /\ doc' = NoDoc
    /\ p' = Reset(p)
    /\ pc' = "Parse"
    /\ lines' = <<>>
    /\ prevLine' = <<>>
    /\ hist' = <<>>
    /\ ret' = NoRet
    /\ UNCHANGED errs

\* One iteration of "for scanner.Scan()": the scanner delivers a token.
ParseScan ==
    /\ UNCHANGED <<scanVars, otherVars>>
    /\ pc = "Parse"
    /\ UNCHANGED doc
    /\ Len(hist) < MaxLines
    /\ \E text \in ScanTexts :
          LET r == ParseLine(p, text) IN
          /\ p' = r.p
          /\ hist' = Append(hist, [input |-> text, line |-> r.line, err |-> r.err])
          /\ IF r.err.type # "nil"
             THEN /\ ret' = strictFailure(lines, enrichParseError(r.err, prevLine, text))
                  /\ pc' = "idle"
                  /\ lines' = <<>>
                  /\ prevLine' = <<>>
             ELSE /\ lines' = Append(lines, r.line)
                  /\ prevLine' = text
                  /\ UNCHANGED <<pc, ret>>
    /\ UNCHANGED errs

\* scanner.Scan() returns false: the input ended, or reading it failed.
ParseEnd ==
    /\ UNCHANGED <<scanVars, otherVars>>
    /\ pc = "Parse"
    /\ UNCHANGED doc
    /\ \E readFailed \in BOOLEAN :
          ret' = IF readFailed
                 THEN [NoRet EXCEPT !.op = "Parse",
                                    !.err = wrapParseError(p.lineNumber, "error reading input",
                                                           <<>>, [type |-> "readError"])]
                 ELSE [NoRet EXCEPT !.op = "Parse", !.lines = lines]
    /\ pc' = "idle"
    /\ lines' = <<>>
    /\ prevLine' = <<>>
    /\ UNCHANGED <<p, errs, hist>>

(***************************************************************************)
(* Parser.ParseWithRecovery: recovery mode                                 *)
(***************************************************************************)
\* A faulty variant of recordError that drops the error.
recordErrorDropped(collected, err) == collected

\* "errs = append(errs, enrichParseError(err, prevLine, text))"
recordError(collected, err) == Append(collected, err)

\* A faulty variant of nextPrevLine that tracks every line, parsed or not.
nextPrevLineAlways(prev, text, failed) == text

\* prevLine after one iteration: "continue" skips "prevLine = text".
nextPrevLine(prev, text, failed) == IF failed THEN prev ELSE text

RecoveryBegin ==
    /\ UNCHANGED <<scanVars, otherVars>>
    /\ pc = "idle"
    /\ doc' = NoDoc
    /\ p' = Reset(p)
    /\ pc' = "ParseWithRecovery"
    /\ lines' = <<>>
    /\ errs' = <<>>
    /\ prevLine' = <<>>
    /\ hist' = <<>>
    /\ ret' = NoRet

RecoveryScan ==
    /\ UNCHANGED <<scanVars, otherVars>>
    /\ pc = "ParseWithRecovery"
    /\ UNCHANGED doc
    /\ Len(hist) < MaxLines
    /\ \E text \in ScanTexts :
          LET r == ParseLine(p, text)
              failed == r.err.type # "nil"
          IN
          /\ p' = r.p
          /\ hist' = Append(hist, [input |-> text, line |-> r.line, err |-> r.err])
          /\ errs' = IF failed
                     THEN recordError(errs, enrichParseError(r.err, prevLine, text))
                     ELSE errs
          /\ lines' = IF failed THEN lines ELSE Append(lines, r.line)
          /\ prevLine' = nextPrevLine(prevLine, text, failed)
    /\ UNCHANGED <<pc, ret>>

RecoveryEnd ==
    /\ UNCHANGED <<scanVars, otherVars>>
    /\ pc = "ParseWithRecovery"
    /\ UNCHANGED doc
    /\ \E readFailed \in BOOLEAN :
          ret' = [NoRet EXCEPT
                    !.op = "ParseWithRecovery",
                    !.lines = lines,
                    !.errs = IF readFailed
                             THEN Append(errs, wrapParseError(p.lineNumber,
                                      "error reading input", <<>>, [type |-> "readError"]))
                             ELSE errs]
    /\ pc' = "idle"
    /\ lines' = <<>>
    /\ errs' = <<>>
    /\ prevLine' = <<>>
    /\ UNCHANGED <<p, hist>>

(***************************************************************************)
(* Decode: the builder runs on the lines a parse returned                  *)
(***************************************************************************)
Build ==
    /\ UNCHANGED <<scanVars, otherVars>>
    /\ pc = "idle"
    /\ ~doc.built
    /\ \/ ret.op = "Parse" /\ ret.err.type = "nil"
       \/ ret.op = "ParseWithRecovery"
    /\ doc' = buildDocument(ret.lines)
    /\ UNCHANGED <<p, pc, lines, errs, prevLine, hist, ret>>

Next ==
    \/ CallReset
    \/ CallSetMaxNestingDepth
    \/ CallParseLine
    \/ ParseBegin
    \/ ParseScan
    \/ ParseEnd
    \/ RecoveryBegin
    \/ RecoveryScan
    \/ RecoveryEnd
    \/ Build

Spec == Init /\ [][Next]_vars

(***************************************************************************)
(* ParseWithRecovery over a reader: bufio.Scanner with ScanGEDCOMLines     *)
(***************************************************************************)
\* The recovery loop over a token list: [p, lines, errs, prevLine].
RECURSIVE recoveryLoop(_, _)
recoveryLoop(st, toks) ==
    IF toks = <<>> THEN st
    ELSE LET text   == Head(toks)
             r      == ParseLine(st.p, text)
             failed == r.err.type # "nil"
         IN  recoveryLoop(
                 [p |-> r.p,
                  lines |-> IF failed THEN st.lines ELSE Append(st.lines, r.line),
                  errs |-> IF failed
                           THEN recordError(st.errs, enrichParseError(r.err, st.prevLine, text))
                           ELSE st.errs,
                  prevLine |-> nextPrevLine(st.prevLine, text, failed)],
                 Tail(toks))

InitScan ==
    /\ p = Reset(NewParser)
    /\ pc = "ParseWithRecovery"
    /\ lines = <<>>
    /\ errs = <<>>
    /\ prevLine = <<>>
    /\ hist = <<>>
    /\ ret = NoRet
    /\ doc = NoDoc
    /\ \/ /\ stream \in RawStreams
          /\ logical = <<>>
          /\ style = "raw"
       \/ /\ logical \in LogicalSeqs
          /\ style \in Styles
          /\ stream = Encode(logical, style)
    /\ rest = stream
    /\ buf = <<>>
    /\ eof = FALSE
    /\ tokens = <<>>
    /\ NoOther

\* Scan() has no token in the buffered bytes and reads on: the reader hands
\* out some of its bytes, its io.EOF, or its last bytes together with io.EOF.
ScannerRead ==
    /\ pc = "ParseWithRecovery"
    /\ ~eof
    /\ buf = <<>> \/ ScanGEDCOMLines(buf, FALSE).token.nil
    /\ \E n \in 0..Len(rest), atEOF \in BOOLEAN :
          /\ n > 0 \/ atEOF
          /\ atEOF => n = Len(rest)
          /\ buf' = buf \o SubSeq(rest, 1, n)
          /\ rest' = SubSeq(rest, n + 1, Len(rest))
          /\ eof' = atEOF
    /\ UNCHANGED <<parserVars, stream, tokens, logical, style>>
    /\ UNCHANGED otherVars

\* Scan() returns true with the token the split function found, and the loop
\* body parses it.
ScannerToken ==
    /\ pc = "ParseWithRecovery"
    /\ buf # <<>> \/ eof
    /\ LET s == ScanGEDCOMLines(buf, eof) IN
       /\ ~s.token.nil
       /\ buf' = SliceFrom(buf, s.advance)
       /\ tokens' = Append(tokens, s.token.bytes)
       /\ LET text   == s.token.bytes
              r      == ParseLine(p, text)
              failed == r.err.type # "nil"
          IN  /\ p' = r.p
              /\ hist' = Append(hist, [input |-> text, line |-> r.line, err |-> r.err])
              /\ errs' = IF failed
                         THEN recordError(errs, enrichParseError(r.err, prevLine, text))
                         ELSE errs
              /\ lines' = IF failed THEN lines ELSE Append(lines, r.line)
              /\ prevLine' = nextPrevLine(prevLine, text, failed)
    /\ UNCHANGED <<pc, ret, doc, stream, rest, eof, logical, style>>
    /\ UNCHANGED otherVars

\* Scan() returns false at the end of the input; scanner.Err() is nil.
ScannerEnd ==
    /\ pc = "ParseWithRecovery"
    /\ eof
    /\ ScanGEDCOMLines(buf, eof).token.nil
    /\ ret' = [NoRet EXCEPT !.op = "ParseWithRecovery", !.lines = lines, !.errs = errs]
    /\ pc' = "idle"
    /\ lines' = <<>>
    /\ errs' = <<>>
    /\ prevLine' = <<>>
    /\ UNCHANGED <<p, hist, doc, scanVars>>
    /\ UNCHANGED otherVars

NextScan ==
    \/ ScannerRead
    \/ ScannerToken
    \/ ScannerEnd

SpecScan == InitScan /\ [][NextScan]_vars

(***************************************************************************)
(* Properties of the parser                                                *)
(***************************************************************************)
Succeeded(e) == e.err.type = "nil"

\* The Lines ParseLine has returned since NewParser/Reset, in call order.
HistLines ==
    LET acc == SelectSeq(hist, Succeeded) IN [i \in 1..Len(acc) |-> acc[i].line]

IsReadError(e) == e.type = "ParseError" /\ e.Err.type = "readError"
IsLineError(e) == e.type = "ParseError" /\ e.Err.type # "readError"

\* The errors of failing lines among es (a read error is not one).
LineErrors(es) == SelectSeq(es, IsLineError)

LevelsChained(ls) == \A i \in 1..(Len(ls) - 1) : ls[i + 1].Level <= ls[i].Level + 1

\* C1: in the Lines returned by Parse and ParseWithRecovery, and in the run of
\* Lines successful ParseLine calls returned since NewParser/Reset, every line
\* but the first has a level at most one above the level of the line before it.
C1_LevelStep ==
    /\ LevelsChained(HistLines)
    /\ LevelsChained(lines)
    /\ LevelsChained(ret.lines)

\* A recovery run whose first line is above level 0, that rejected a level jump
\* and went on to return several lines.
C1_Witness ==
    /\ ret.op = "ParseWithRecovery"
    /\ Len(ret.lines) >= 2
    /\ ret.lines[1].Level > 0
    /\ \E i \in 1..Len(ret.errs) : ret.errs[i].Err.type = "LevelMismatchError"

\* C5: when Parse returns the error of a failing line, it returns no lines, the
\* failing line is the first one that failed, and it is the last line ParseLine
\* was called on.
C5_StrictAbort ==
    /\ pc = "Parse" => \A k \in 1..Len(hist) : Succeeded(hist[k])
    /\ (ret.op = "Parse" /\ IsLineError(ret.err)) =>
          /\ ret.lines = <<>>
          /\ Len(hist) >= 1
          /\ ret.err.Line = Len(hist)
          /\ p.lineNumber = Len(hist)
          /\ ~Succeeded(hist[Len(hist)])
          /\ ret.err.Message = hist[Len(hist)].err.Message
          /\ ret.err.Err = hist[Len(hist)].err.Err
          /\ \A k \in 1..(Len(hist) - 1) : Succeeded(hist[k])

\* Parse failed on a line after parsing two lines before it.
C5_Witness ==
    /\ ret.op = "Parse"
    /\ IsLineError(ret.err)
    /\ Len(hist) >= 3

\* lines and es are the outcomes of the first Len(hist) tokens, one each, in order.
OneOutcomePerToken(ls, es) ==
    /\ Len(ls) + Len(es) = Len(hist)
    /\ ls = HistLines
    /\ \A i \in 1..(Len(es) - 1) : es[i].Line < es[i + 1].Line
    /\ \A k \in 1..Len(hist) :
          IF Succeeded(hist[k])
          THEN /\ \E i \in 1..Len(ls) : ls[i] = hist[k].line
               /\ \A i \in 1..Len(es) : es[i].Line # k
          ELSE /\ \E i \in 1..Len(es) :
                     /\ es[i].Line = k
                     /\ es[i].Message = hist[k].err.Message
                     /\ es[i].Err = hist[k].err.Err
               /\ \A i \in 1..Len(ls) : ls[i].LineNumber # k

\* C6: in recovery mode every token scanned yields exactly one outcome, a Line
\* or an error, both lists in source order, and a failing line does not stop
\* the run: len(lines) + len(line errors) is the number of tokens.
C6_RecoveryOutcomes ==
    /\ pc = "ParseWithRecovery" => OneOutcomePerToken(lines, errs)
    /\ ret.op = "ParseWithRecovery" => OneOutcomePerToken(ret.lines, LineErrors(ret.errs))

\* A recovery run that skipped a failing line and parsed a later one.
C6_Witness ==
    /\ ret.op = "ParseWithRecovery"
    /\ Len(LineErrors(ret.errs)) >= 1
    /\ Len(ret.lines) >= 2
    /\ ret.lines[Len(ret.lines)].LineNumber > ret.errs[1].Line
    /\ ret.lines[1].LineNumber < ret.errs[1].Line

\* The greatest element of a non-empty set of numbers.
Max(S) == CHOOSE x \in S : \A y \in S : y <= x

\* The context the claim gives the error of line n.
ExpectedContext(n) ==
    LET before == {k \in 1..(n - 1) : Succeeded(hist[k])} IN
    IF before = {} THEN hist[n].input
    ELSE PrevPrefix \o hist[Max(before)].input \o LineInfix \o hist[n].input

ContextsAsClaimed(es) ==
    \A i \in 1..Len(es) : IsLineError(es[i]) => es[i].Context = ExpectedContext(es[i].Line)

\* C7: the error of a failing line surfaced by Parse or ParseWithRecovery has
\* the context "prev: P | line: C", C the failing raw line and P the raw text of
\* the last line parsed successfully before it, and just C when there is none.
C7_ErrorContext ==
    /\ pc = "ParseWithRecovery" => ContextsAsClaimed(errs)
    /\ ret.op = "ParseWithRecovery" => ContextsAsClaimed(ret.errs)
    /\ ret.op = "Parse" => ContextsAsClaimed(<<ret.err>>)

\* Two failing lines in a row after a parsed one: the second error's previous
\* line is the parsed one, not the failed one before it.
C7_Witness ==
    /\ ret.op = "ParseWithRecovery"
    /\ Len(ret.errs) >= 2
    /\ IsLineError(ret.errs[2])
    /\ ret.errs[1].Line = 2
    /\ ret.errs[2].Line = 3
    /\ hist[2].input # <<>>
    /\ ret.errs[2].Context = PrevPrefix \o hist[1].input \o LineInfix \o hist[3].input

\* C8: the n-th ParseLine call after NewParser/Reset reports line number n, in
\* the Line or in the error; the Lines Parse and ParseWithRecovery return carry
\* strictly increasing line numbers, each the position of its token in the input.
C8_LineNumbers ==
    /\ p.lineNumber = Len(hist)
    /\ \A k \in 1..Len(hist) :
          IF Succeeded(hist[k]) THEN hist[k].line.LineNumber = k
          ELSE hist[k].err.Line = k
    /\ ret.op \in {"Parse", "ParseWithRecovery"} =>
          /\ \A i \in 1..(Len(ret.lines) - 1) :
                ret.lines[i].LineNumber < ret.lines[i + 1].LineNumber
          /\ \A i \in 1..Len(ret.lines) :
                /\ ret.lines[i].LineNumber \in 1..Len(hist)
                /\ hist[ret.lines[i].LineNumber].line = ret.lines[i]

\* A recovery run returned the lines at positions 1 and 3, line 2 being skipped.
C8_Witness ==
    /\ ret.op = "ParseWithRecovery"
    /\ Len(ret.lines) = 2
    /\ ret.lines[1].LineNumber = 1
    /\ ret.lines[2].LineNumber = 3

\* The level a line states: its first field read as an integer, when the line
\* has the two fields ParseLine asks for before it reads the level.
StatedLevel(input) ==
    LET parts == Fields(TrimRight(input, {CR, LF})) IN
    IF Len(parts) >= 2 THEN Atoi(parts[1]) ELSE [ok |-> FALSE, val |-> 0]

RejectedForDepth(e) ==
    /\ e.err.type = "ParseError"
    /\ e.err.Err.type = "InvalidLevelError"
    /\ e.err.Err.Reason = "exceeds max depth"

\* The ParseLine calls of hist made under the nesting cap the parser has now.
CallsUnderCap ==
    IF pc # "idle" \/ ret.op \in {"Parse", "ParseWithRecovery"} THEN 1..Len(hist)
    ELSE IF ret.op = "ParseLine" THEN {Len(hist)}
    ELSE {}

\* C9: with nesting cap D, a line stating level D is not rejected for depth, a
\* line stating a level of D+1 or more is rejected with InvalidLevel "exceeds
\* max depth", and every Line returned has 0 <= level <= D.
C9_DepthBoundary ==
    LET D == depthLimit(p.maxDepth) IN
    \A k \in CallsUnderCap :
        LET lv == StatedLevel(hist[k].input) IN
        /\ (lv.ok /\ lv.val = D) => ~RejectedForDepth(hist[k])
        /\ (lv.ok /\ lv.val >= D + 1) => RejectedForDepth(hist[k])
        /\ Succeeded(hist[k]) => (0 <= hist[k].line.Level /\ hist[k].line.Level <= D)

\* Under a cap of 2 a level-2 line was returned and a level-3 line was rejected
\* for depth.
C9_Witness ==
    /\ p.maxDepth = 2
    /\ pc = "ParseWithRecovery"
    /\ \E k \in 1..Len(hist) : Succeeded(hist[k]) /\ hist[k].line.Level = 2
    /\ \E k \in 1..Len(hist) : RejectedForDepth(hist[k]) /\ StatedLevel(hist[k].input).val = 3

\* C10: SetMaxNestingDepth(n) stores n when n > 0 and the default 100 otherwise,
\* ParseLine reads a stored cap <= 0 as 100, and so the cap ParseLine applies
\* is always positive.
C10_EffectiveCap ==
    /\ ret.op = "SetMaxNestingDepth" =>
          p.maxDepth = (IF ret.arg > 0 THEN ret.arg ELSE 100)
    /\ depthLimit(p.maxDepth) > 0
    /\ p.maxDepth <= 0 =>
          \A k \in CallsUnderCap :
              LET lv == StatedLevel(hist[k].input) IN
              /\ (lv.ok /\ lv.val = 100) => ~RejectedForDepth(hist[k])
              /\ (lv.ok /\ lv.val = 101) => RejectedForDepth(hist[k])

\* SetMaxNestingDepth was called with a non-positive argument on a parser that
\* has parsed lines, and the cap is the default.
C10_Witness ==
    /\ ret.op = "SetMaxNestingDepth"
    /\ ret.arg <= 0
    /\ Len(hist) >= 1
    /\ p.maxDepth = 100

\* A parser holding the zero cap rejected a level-101 line for depth.
C10_WitnessStoredZero ==
    /\ p.maxDepth = 0
    /\ \E k \in CallsUnderCap :
          RejectedForDepth(hist[k]) /\ StatedLevel(hist[k].input).val = 101

\* C2: the builder attaches every line of level L > 0 under an existing node
\* of level L-1 (stack slot L-1 of the current record), so every tag's level is
\* its depth beneath its record root.
C2_TagDepth ==
    doc.built =>
        \A i \in 1..Len(doc.nodes) :
            doc.nodes[i].Level > 0 =>
                /\ doc.nodes[i].parent # 0
                /\ doc.nodes[doc.nodes[i].parent].Level = doc.nodes[i].Level - 1
                /\ depth(doc.nodes, i) = doc.nodes[i].Level

\* The walk does give every tag an existing parent one level up when the
\* lines begin with a level-0 line; only a first line above level 0 breaks C2.
BuilderSoundFromLevelZero ==
    (doc.built /\ ret.lines # <<>> /\ ret.lines[1].Level = 0) =>
        \A i \in 1..Len(doc.nodes) :
            doc.nodes[i].Level > 0 =>
                /\ doc.nodes[i].parent # 0
                /\ depth(doc.nodes, i) = doc.nodes[i].Level

(***************************************************************************)
(* Properties of the tokenizer                                             *)
(***************************************************************************)
\* The lines of a byte stream: the bytes between terminators, a terminator
\* being CR LF, or else a single LF or CR; bytes after the last terminator
\* make a last line.
RECURSIVE SplitLines(_, _, _, _)
SplitLines(s, i, cur, acc) ==
    IF i > Len(s) THEN (IF cur = <<>> THEN acc ELSE Append(acc, cur))
    ELSE IF s[i] = CR /\ i < Len(s) /\ s[i + 1] = LF
         THEN SplitLines(s, i + 2, <<>>, Append(acc, cur))
    ELSE IF s[i] \in {CR, LF}
         THEN SplitLines(s, i + 1, <<>>, Append(acc, cur))
    ELSE SplitLines(s, i + 1, Append(cur, s[i]), acc)

IsPrefix(a, b) == Len(a) <= Len(b) /\ a = SubSeq(b, 1, Len(a))

ScanEnded == pc = "idle" /\ ret.op = "ParseWithRecovery"

\* C3: however the reader cuts the stream into reads, the tokens delivered are
\* the lines of the stream, none extra and none split; a buffer that ends in
\* its first CR before EOF gets (0, nil); no token holds a terminator.
C3_ChunkIndependent ==
    /\ IsPrefix(tokens, SplitLines(stream, 1, <<>>, <<>>))
    /\ ScanEnded => tokens = SplitLines(stream, 1, <<>>, <<>>)
    /\ \A k \in 1..Len(tokens) : \A j \in 1..Len(tokens[k]) : tokens[k][j] \notin {CR, LF}
    /\ (~eof /\ buf # <<>> /\ buf[Len(buf)] = CR
          /\ \A j \in 1..(Len(buf) - 1) : buf[j] \notin {CR, LF}) =>
          ScanGEDCOMLines(buf, FALSE) = [advance |-> 0, token |-> NoToken]

\* A CR LF terminator straddles two reads: the buffer ends in the CR and the
\* reader's next byte is the LF.
C3_Witness ==
    /\ ~eof
    /\ buf # <<>>
    /\ buf[Len(buf)] = CR
    /\ \A j \in 1..(Len(buf) - 1) : buf[j] \notin {CR, LF}
    /\ rest # <<>>
    /\ rest[1] = LF

\* C4: a sequence of logical lines terminated throughout by LF, by CRLF or by
\* CR is tokenized into those lines, and parsed into the Lines and errors
\* that parsing the logical lines gives, whatever the style.
C4_StyleIndependent ==
    (ScanEnded /\ style \in Styles) =>
        LET want == recoveryLoop([p |-> Reset(NewParser), lines |-> <<>>, errs |-> <<>>,
                                  prevLine |-> <<>>], logical)
        IN  /\ tokens = logical
            /\ ret.lines = want.lines
            /\ ret.errs = want.errs

\* Two lines terminated by bare CRs were scanned and both parsed.
C4_Witness ==
    /\ ScanEnded
    /\ style = "CR"
    /\ logical = <<tHEAD, tTRLR>>
    /\ Len(ret.lines) = 2
    /\ ret.lines[2].LineNumber = 2

(***************************************************************************)
(* ParseLine over composed lines and over arbitrary bytes                  *)
(***************************************************************************)
DigitChar(d) ==
    CASE d = 0 -> "0" [] d = 1 -> "1" [] d = 2 -> "2" [] d = 3 -> "3"
      [] d = 4 -> "4" [] d = 5 -> "5" [] d = 6 -> "6" [] d = 7 -> "7"
      [] d = 8 -> "8" [] d = 9 -> "9"

\* strconv.Itoa(n)
RECURSIVE Itoa(_)
Itoa(n) ==
    IF n < 0 THEN <<"-">> \o Itoa(0 - n)
    ELSE IF n < 10 THEN <<DigitChar(n)>>
    ELSE Itoa(n \div 10) \o <<DigitChar(n % 10)>>

\* formatLineContext(line): "LEVEL [XREF] TAG [VALUE]".
formatLineContext(line) ==
    IF line.type = "nil" THEN <<>>
    ELSE Itoa(line.Level) \o <<SP>>
         \o (IF line.XRef # <<>> THEN line.XRef \o <<SP>> ELSE <<>>)
         \o line.Tag
         \o (IF line.Value # <<>> THEN <<SP>> \o line.Value ELSE <<>>)

\* The string of n copies of the character c.
RECURSIVE Repeat(_, _)
Repeat(c, n) == IF n <= 0 THEN <<>> ELSE <<c>> \o Repeat(c, n - 1)

\* The parts lines are composed of, well-formed and not.
LevelPool == {0, 1, 10}
XRefPool ==
    {<<>>, <<"@", "I", "1", "@">>, <<"@", "_", "@">>, <<"@", "@">>,
     <<"@", "I", "1", "@", "@">>, <<"@", "I", "-", "1", "@">>}
TagPool ==
    {<<"H", "E", "A", "D">>, <<"n", "_", "1">>, <<"N", "A", "-", "M", "E">>,
     Repeat("T", maxTagLength), Repeat("T", maxTagLength + 1)}
ValuePool ==
    {<<>>, <<"J">>, <<"J", " ", " ", "S">>, <<"J", TAB, " ">>, <<" ", "J">>}

\* "LEVEL [XREF] TAG [VALUE]" written out, one space between the parts.
Compose(level, xref, tag, value) ==
    Itoa(level) \o <<SP>>
    \o (IF xref # <<>> THEN xref \o <<SP>> ELSE <<>>)
    \o tag
    \o (IF value # <<>> THEN <<SP>> \o value ELSE <<>>)

\* The longest byte string tried as a whole input.
MaxBytes == 4

ByteAlphabet == {"0", "-", SP, "@", "A", LF, CR}
ByteStrings == UNION {[1..n -> ByteAlphabet] : n \in 0..MaxBytes}

\* ParseLine called on a composed line; ret.arg keeps the parts the line was
\* made of and the level of the line accepted before it.
ParseComposed ==
    /\ pc = "idle"
    /\ hist = <<>>
    /\ ret = NoRet
    /\ \E level \in LevelPool, xref \in XRefPool, tag \in TagPool, value \in ValuePool :
          LET input == Compose(level, xref, tag, value)
              r     == ParseLine(p, input)
          IN  /\ p' = r.p
              /\ hist' = <<[input |-> input, line |-> r.line, err |-> r.err]>>
              /\ ret' = [NoRet EXCEPT
                           !.op = "ParseComposed",
                           !.arg = [level |-> level, xref |-> xref, tag |-> tag,
                                    value |-> value, lastLevel |-> p.lastLevel],
                           !.lines = IF r.err.type = "nil" THEN <<r.line>> ELSE <<>>,
                           !.err = r.err]
    /\ UNCHANGED <<pc, lines, errs, prevLine, doc, scanVars>>
    /\ UNCHANGED otherVars

\* ParseLine called on any byte string.
ParseBytes ==
    /\ pc = "idle"
    /\ hist = <<>>
    /\ ret = NoRet
    /\ \E input \in ByteStrings :
          LET r == ParseLine(p, input) IN
          /\ p' = r.p
          /\ hist' = <<[input |-> input, line |-> r.line, err |-> r.err]>>
          /\ ret' = [NoRet EXCEPT
                       !.op = "ParseBytes",
                       !.lines = IF r.err.type = "nil" THEN <<r.line>> ELSE <<>>,
                       !.err = r.err]
    /\ UNCHANGED <<pc, lines, errs, prevLine, doc, scanVars>>
    /\ UNCHANGED otherVars

\* The tokens Scan() delivers when the reader hands out all of data together
\* with io.EOF: the split function applied until it returns no token.
RECURSIVE scanTokens(_)
scanTokens(data) ==
    LET s == ScanGEDCOMLines(data, TRUE) IN
    IF s.token.nil THEN <<>>
    ELSE <<s.token.bytes>> \o scanTokens(SliceFrom(data, s.advance))

\* The loop of Parse over a token list: [p, lines, err].
RECURSIVE strictLoop(_, _)
strictLoop(st, toks) ==
    IF toks = <<>> THEN st
    ELSE LET text == Head(toks)
             r    == ParseLine(st.p, text)
         IN  IF r.err.type # "nil"
             THEN [p |-> r.p, lines |-> <<>>, prevLine |-> st.prevLine,
                   err |-> enrichParseError(r.err, st.prevLine, text)]
             ELSE strictLoop([p |-> r.p, lines |-> Append(st.lines, r.line),
                              prevLine |-> text, err |-> NoErr],
                             Tail(toks))

\* Parser.Parse on a reader holding any byte string.
ParseStream ==
    /\ pc = "idle"
    /\ hist = <<>>
    /\ ret = NoRet
    /\ \E data \in ByteStrings :
          LET toks == scanTokens(data)
              st   == strictLoop([p |-> Reset(p), lines |-> <<>>, prevLine |-> <<>>,
                                  err |-> NoErr], toks)
          IN  /\ stream' = data
              /\ tokens' = toks
              /\ p' = st.p
              /\ ret' = [NoRet EXCEPT !.op = "ParseStream", !.lines = st.lines,
                                      !.err = st.err]
    /\ UNCHANGED <<pc, lines, errs, prevLine, hist, doc, rest, buf, eof, logical, style>>
    /\ UNCHANGED otherVars

\* Parser.ParseWithRecovery on a reader holding any byte string.
RecoverStream ==
    /\ pc = "idle"
    /\ hist = <<>>
    /\ ret = NoRet
    /\ \E data \in ByteStrings :
          LET toks == scanTokens(data)
              st   == recoveryLoop([p |-> Reset(p), lines |-> <<>>, errs |-> <<>>,
                                    prevLine |-> <<>>], toks)
          IN  /\ stream' = data
              /\ tokens' = toks
              /\ p' = st.p
              /\ ret' = [NoRet EXCEPT !.op = "RecoverStream", !.lines = st.lines,
                                      !.errs = st.errs]
    /\ UNCHANGED <<pc, lines, errs, prevLine, hist, doc, rest, buf, eof, logical, style>>
    /\ UNCHANGED otherVars

\* NewParser() again: the caller starts over with a fresh parser.
FreshParser ==
    /\ pc = "idle"
    /\ ret.op \in {"ParseComposed", "ParseBytes", "ParseStream", "RecoverStream"}
    /\ p' \in {NewParser, ZeroParser}
    /\ hist' = <<>>
    /\ ret' = NoRet
    /\ stream' = <<>>
    /\ tokens' = <<>>
    /\ UNCHANGED <<pc, lines, errs, prevLine, doc, rest, buf, eof, logical, style>>
    /\ UNCHANGED otherVars

NextLine ==
    \/ ParseComposed
    \/ ParseBytes
    \/ ParseStream
    \/ RecoverStream
    \/ FreshParser

SpecLine == Init /\ [][NextLine]_vars

(***************************************************************************)
(* Properties of the line grammar                                          *)
(***************************************************************************)
\* [A-Za-z0-9_]
IsWordChar(c) == c \in Letters \cup Digits \cup {"_"}

\* Non-empty, at most 31 characters, all of [A-Za-z0-9_].
TagShape(tag) ==
    /\ Len(tag) >= 1
    /\ Len(tag) <= 31
    /\ \A i \in 1..Len(tag) : IsWordChar(tag[i])

\* @[A-Za-z0-9_]+@
XRefShape(xref) ==
    /\ Len(xref) >= 3
    /\ xref[1] = "@"
    /\ xref[Len(xref)] = "@"
    /\ \A i \in 2..(Len(xref) - 1) : IsWordChar(xref[i])

RejectedWith(e, errType) ==
    /\ e.line.type = "nil"
    /\ e.err.type = "ParseError"
    /\ e.err.Err.type = errType

\* The composed line passes the level checks, with no xref or a well-formed one.
ReachesTagCheck ==
    /\ ret.op = "ParseComposed"
    /\ ret.arg.lastLevel < 0 \/ ret.arg.level <= ret.arg.lastLevel + 1
    /\ ret.arg.xref = <<>> \/ XRefShape(ret.arg.xref)

\* C11: a line that reaches the tag check is accepted if and only if its tag is
\* non-empty, at most 31 characters long and made of [A-Za-z0-9_], and rejected
\* with InvalidTag otherwise; every Line returned carries a tag of that shape.
C11_TagShape ==
    /\ \A k \in 1..Len(hist) :
          /\ Succeeded(hist[k]) => TagShape(hist[k].line.Tag)
          /\ RejectedWith(hist[k], "InvalidTagError") => ~TagShape(hist[k].err.Err.Tag)
    /\ ReachesTagCheck =>
          IF TagShape(ret.arg.tag)
          THEN Succeeded(hist[1]) /\ hist[1].line.Tag = ret.arg.tag
          ELSE RejectedWith(hist[1], "InvalidTagError")

\* A line with an xref and a tag of 31 characters was accepted.
C11_Witness ==
    /\ ReachesTagCheck
    /\ ret.arg.xref # <<>>
    /\ Len(ret.arg.tag) = 31
    /\ Succeeded(hist[1])
    /\ hist[1].line.Tag = ret.arg.tag

\* A line whose tag has 32 characters was rejected with InvalidTag "too long".
C11_WitnessTooLong ==
    /\ ReachesTagCheck
    /\ Len(ret.arg.tag) = 32
    /\ RejectedWith(hist[1], "InvalidTagError")
    /\ hist[1].err.Err.Reason = "too long"

\* C12: a line whose field[1] starts and ends with '@' is rejected with
\* InvalidXRef unless that field has exactly two '@', length at least 3 and a
\* body of [A-Za-z0-9_] only; every non-empty Line.XRef matches @[A-Za-z0-9_]+@.
C12_XRefShape ==
    /\ \A k \in 1..Len(hist) :
          (Succeeded(hist[k]) /\ hist[k].line.XRef # <<>>) => XRefShape(hist[k].line.XRef)
    /\ (/\ ret.op = "ParseComposed"
        /\ ret.arg.lastLevel < 0 \/ ret.arg.level <= ret.arg.lastLevel + 1
        /\ ret.arg.xref # <<>>
        /\ ~XRefShape(ret.arg.xref)) => RejectedWith(hist[1], "InvalidXRefError")

\* What the xref check of ParseLine does ensure: a non-empty Line.XRef starts
\* and ends with '@', holds exactly two '@' and is at least 3 long.
XRefAsChecked ==
    \A k \in 1..Len(hist) :
        (Succeeded(hist[k]) /\ hist[k].line.XRef # <<>>) =>
            LET x == hist[k].line.XRef IN
            /\ Len(x) >= 3
            /\ x[1] = "@"
            /\ x[Len(x)] = "@"
            /\ Cardinality({i \in 1..Len(x) : x[i] = "@"}) = 2

\* The parts make a legal line: a level the hierarchy allows, no xref or a
\* well-formed one, a well-formed tag, and no value or one that starts with a
\* character other than white space.
LegalParts(a) ==
    /\ a.level >= 0
    /\ a.level <= 100
    /\ a.lastLevel < 0 \/ a.level <= a.lastLevel + 1
    /\ a.xref = <<>> \/ XRefShape(a.xref)
    /\ TagShape(a.tag)
    /\ a.value = <<>> \/ ~IsSpace(a.value[1])

IsSuffix(a, b) == Len(a) <= Len(b) /\ a = SubSeq(b, Len(b) - Len(a) + 1, Len(b))

\* C13: a legal line composed of level, optional xref, tag and optional value
\* is parsed into those parts, the value with its spacing kept, and printing
\* the Line as "LEVEL [XREF] TAG [VALUE]" gives the line back.
C13_RoundTrip ==
    (ret.op = "ParseComposed" /\ LegalParts(ret.arg)) =>
        /\ Succeeded(hist[1])
        /\ hist[1].line.Level = ret.arg.level
        /\ hist[1].line.XRef = ret.arg.xref
        /\ hist[1].line.Tag = ret.arg.tag
        /\ hist[1].line.Value = ret.arg.value
        /\ IsSuffix(hist[1].line.Value, hist[1].input)
        /\ formatLineContext(hist[1].line) = hist[1].input

\* A legal line with a two-digit level, an xref and a value with two spaces
\* inside was parsed and printed back.
C13_Witness ==
    /\ ret.op = "ParseComposed"
    /\ LegalParts(ret.arg)
    /\ ret.arg.level = 10
    /\ ret.arg.xref # <<>>
    /\ ret.arg.value = <<"J", " ", " ", "S">>
    /\ formatLineContext(hist[1].line) = hist[1].input

C14_WitnessBytes ==
    /\ ret.op = "ParseBytes"
    /\ Len(hist) = 1
    /\ hist[1].err.type = "ParseError"
    /\ hist[1].line.type = "nil"
    /\ Len(hist[1].input) = MaxBytes

(***************************************************************************)
(* Parse and ParseWithRecovery over a bufio.Scanner with a bounded buffer  *)
(* and a reader that may fail                                              *)
(***************************************************************************)
\* maxScannerTokenSize (1 MiB) and the scanner's first buffer (64 KiB), both
\* scaled down: the buffer still grows by doubling up to the maximum.
maxScannerTokenSize == 5
initialBufferSize == 2

\* A parsable line of n bytes, n >= 3.
LineOfLen(n) == <<"0", SP>> \o Repeat("A", n - 2)

\* Line contents around the token bound, and one ParseLine rejects.
TokContents ==
    {LineOfLen(n) : n \in (maxScannerTokenSize - 2)..(maxScannerTokenSize + 1)}
    \cup {<<"A", "A", "A">>}

TokTerminator(term) ==
    CASE term = "LF" -> <<LF>> [] term = "CRLF" -> <<CR, LF>>
      [] term = "CR" -> <<CR>> [] term = "none" -> <<>>

\* One or two lines, each with its terminator; only the last may have none.
TokStreams ==
    {<<[text |-> a, term |-> t]>> : a \in TokContents, t \in {"LF", "CRLF", "CR", "none"}}
    \cup {<<[text |-> a, term |-> t], [text |-> b, term |-> u]>> :
            a \in TokContents, t \in {"LF", "CRLF", "CR"},
            b \in TokContents, u \in {"LF", "CRLF", "CR", "none"}}

RECURSIVE EncodeTok(_)
EncodeTok(ls) ==
    IF ls = <<>> THEN <<>>
    ELSE Head(ls).text \o TokTerminator(Head(ls).term) \o EncodeTok(Tail(ls))

\* p.Reset(); scanner := bufio.NewScanner(r); scanner.Buffer(make([]byte, 64*1024),
\* maxScannerTokenSize); scanner.Split(ScanGEDCOMLines), in either method.
InitTok ==
    /\ p = Reset(NewParser)
    /\ pc \in {"Parse", "ParseWithRecovery"}
    /\ lines = <<>>
    /\ errs = <<>>
    /\ prevLine = <<>>
    /\ hist = <<>>
    /\ ret = NoRet
    /\ doc = NoDoc
    /\ logical \in TokStreams
    /\ style = "mixed"
    /\ stream = EncodeTok(logical)
    /\ rest = stream
    /\ buf = <<>>
    /\ eof = FALSE
    /\ tokens = <<>>
    /\ scanner = [start |-> 0, size |-> initialBufferSize, err |-> "nil"]
    /\ dec = [pc |-> "none"]
    /\ val = [pc |-> "none"]
    /\ exp = [pc |-> "none"]

\* "if s.end > s.start || s.err != nil": the split function is asked for a
\* token, with atEOF = (s.err != nil).
splitResult ==
    IF buf # <<>> \/ scanner.err # "nil"
    THEN ScanGEDCOMLines(buf, scanner.err # "nil")
    ELSE [advance |-> 0, token |-> NoToken]

\* What the method returns once Scan() has returned false with scanner.Err()
\* = cause ("nil" for none).
scanEnded(cause) ==
    LET readErr == wrapParseError(p.lineNumber, "error reading input", <<>>,
                                  [type |-> cause])
    IN  IF pc = "Parse"
        THEN IF cause # "nil"
             THEN [NoRet EXCEPT !.op = "Parse", !.err = readErr]
             ELSE [NoRet EXCEPT !.op = "Parse", !.lines = lines]
        ELSE [NoRet EXCEPT !.op = "ParseWithRecovery", !.lines = lines,
                           !.errs = IF cause # "nil" THEN Append(errs, readErr) ELSE errs]

\* Scan() returns true with a token, and the loop body parses it.
TokDeliver ==
    /\ pc \in {"Parse", "ParseWithRecovery"}
    /\ ~splitResult.token.nil
    /\ LET s      == splitResult
           text   == s.token.bytes
           r      == ParseLine(p, text)
           failed == r.err.type # "nil"
       IN  /\ buf' = SliceFrom(buf, s.advance)
           /\ scanner' = [scanner EXCEPT !.start = @ + s.advance]
           /\ tokens' = Append(tokens, text)
           /\ p' = r.p
           /\ hist' = Append(hist, [input |-> text, line |-> r.line, err |-> r.err])
           /\ IF pc = "Parse"
              THEN IF failed
                   THEN /\ ret' = strictFailure(lines, enrichParseError(r.err, prevLine, text))
                        /\ pc' = "idle"
                        /\ lines' = <<>>
                        /\ prevLine' = <<>>
                        /\ UNCHANGED errs
                   ELSE /\ lines' = Append(lines, r.line)
                        /\ prevLine' = text
                        /\ UNCHANGED <<pc, ret, errs>>
              ELSE /\ errs' = IF failed
                              THEN recordError(errs, enrichParseError(r.err, prevLine, text))
                              ELSE errs
                   /\ lines' = IF failed THEN lines ELSE Append(lines, r.line)
                   /\ prevLine' = nextPrevLine(prevLine, text, failed)
                   /\ UNCHANGED <<pc, ret>>
    /\ UNCHANGED <<doc, stream, rest, eof, logical, style, dec, val, exp>>

\* s.start after "shift data to beginning of buffer if there's lots of empty
\* space or space is needed".
shiftedStart ==
    IF scanner.start > 0
       /\ (scanner.start + Len(buf) = scanner.size \/ scanner.start > scanner.size \div 2)
    THEN 0 ELSE scanner.start

\* "if s.end == len(s.buf)": the buffer is full.
bufferFull == shiftedStart + Len(buf) = scanner.size

\* Scan() has no token and no error yet: it makes room, growing a full buffer
\* by doubling up to the maximum, and reads. The reader hands out some bytes,
\* or its last bytes with or before io.EOF, or fails.
TokRead ==
    /\ pc \in {"Parse", "ParseWithRecovery"}
    /\ splitResult.token.nil
    /\ scanner.err = "nil"
    /\ bufferFull => scanner.size < maxScannerTokenSize
    /\ LET size1  == IF bufferFull
                     THEN Min({scanner.size * 2, maxScannerTokenSize})
                     ELSE scanner.size
           start1 == IF bufferFull THEN 0 ELSE shiftedStart
           room   == size1 - (start1 + Len(buf))
           most   == Min({room, Len(rest)})
       IN  \E n \in {0, 1, most}, e \in {"nil", "EOF", "readError"} :
              /\ n <= most
              /\ e = "nil" => n > 0
              /\ e = "EOF" => n = Len(rest)
              /\ buf' = buf \o SubSeq(rest, 1, n)
              /\ rest' = SubSeq(rest, n + 1, Len(rest))
              /\ scanner' = [start |-> start1, size |-> size1, err |-> e]
    /\ UNCHANGED <<parserVars, stream, eof, tokens, logical, style, dec, val, exp>>

\* Scan() has no token, no error, and a full buffer that may not grow:
\* s.setErr(ErrTooLong), Scan() returns false and the method returns.
TokTooLong ==
    /\ pc \in {"Parse", "ParseWithRecovery"}
    /\ splitResult.token.nil
    /\ scanner.err = "nil"
    /\ bufferFull
    /\ scanner.size >= maxScannerTokenSize
    /\ scanner' = [scanner EXCEPT !.err = "ErrTooLong"]
    /\ ret' = scanEnded("ErrTooLong")
    /\ pc' = "idle"
    /\ lines' = <<>>
    /\ errs' = <<>>
    /\ prevLine' = <<>>
    /\ UNCHANGED <<p, hist, doc, stream, rest, buf, eof, tokens, logical, style,
                   dec, val, exp>>

\* Scan() has no token and an error: it returns false, and the method returns
\* with scanner.Err(), which is nil for io.EOF.
TokStop ==
    /\ pc \in {"Parse", "ParseWithRecovery"}
    /\ splitResult.token.nil
    /\ scanner.err # "nil"
    /\ ret' = scanEnded(IF scanner.err = "EOF" THEN "nil" ELSE scanner.err)
    /\ pc' = "idle"
    /\ lines' = <<>>
    /\ errs' = <<>>
    /\ prevLine' = <<>>
    /\ UNCHANGED <<p, hist, doc, stream, rest, buf, eof, tokens, logical, style,
                   scanner, dec, val, exp>>

NextTok ==
    \/ TokDeliver
    \/ TokRead
    \/ TokTooLong
    \/ TokStop

SpecTok == InitTok /\ [][NextTok]_vars

(***************************************************************************)
(* Properties of the scanner's error paths                                 *)
(***************************************************************************)
\* Parse or ParseWithRecovery has returned.
Returned == pc = "idle" /\ ret.op \in {"Parse", "ParseWithRecovery"}

\* The bytes the reader handed out.
Delivered == SubSeq(stream, 1, Len(stream) - Len(rest))

\* The error reports a failed read of the given cause after n lines.
ReportsReadError(e, cause, n) ==
    /\ e.type = "ParseError"
    /\ e.Message = "error reading input"
    /\ e.Err = [type |-> cause]
    /\ e.Line = n

WrapsCause(e, cause) == e.type = "ParseError" /\ e.Err.type = cause

C15_WitnessStrict ==
    /\ Returned
    /\ ret.op = "Parse"
    /\ scanner.err = "readError"
    /\ ret.lines = <<>>
    /\ ReportsReadError(ret.err, "readError", 1)
    /\ Succeeded(hist[1])

Contents == [i \in 1..Len(logical) |-> logical[i].text]
AllTerminated == \A i \in 1..Len(logical) : logical[i].term # "none"
LongerThan(n) == {i \in 1..Len(logical) : Len(logical[i].text) > n}

\* The method returned, the reader did not fail, and no line failure cut the
\* scan short.
ScannedToTheEnd ==
    /\ Returned
    /\ scanner.err # "readError"
    /\ ret.op = "Parse" => \A k \in 1..Len(hist) : Succeeded(hist[k])

\* The last error the method returned, NoErr when it returned none.
FinalError ==
    IF ret.op = "Parse" THEN ret.err
    ELSE IF ret.errs = <<>> THEN NoErr ELSE ret.errs[Len(ret.errs)]

\* C16: with token bound B, every terminated line of at most B bytes of
\* content, B bytes included, is delivered whole and parsed, and a longer line
\* ends the scan with a read error, no token being a piece of a line.
C16_TokenBound ==
    (ScannedToTheEnd /\ AllTerminated) =>
        IF LongerThan(maxScannerTokenSize) = {}
        THEN /\ tokens = Contents
             /\ scanner.err = "EOF"
             /\ ~WrapsCause(FinalError, "ErrTooLong")
             /\ \A i \in 1..Len(logical) :
                   (Len(logical[i].text) = maxScannerTokenSize /\ logical[i].text[1] = "0")
                       => \E j \in 1..Len(HistLines) : HistLines[j].LineNumber = i
        ELSE /\ tokens = SubSeq(Contents, 1, Min(LongerThan(maxScannerTokenSize)) - 1)
             /\ scanner.err = "ErrTooLong"
             /\ ReportsReadError(FinalError, "ErrTooLong", Len(tokens))

\* What the scanner does ensure: a line of at most B - 2 bytes is always
\* delivered, a line of more than B bytes never, and no token is a piece of a
\* line unless the reader failed inside the line.
TokenBoundAsBuilt ==
    /\ scanner.err # "readError" => IsPrefix(tokens, Contents)
    /\ ScannedToTheEnd =>
          /\ LongerThan(maxScannerTokenSize - 2) = {} =>
                (tokens = Contents /\ scanner.err = "EOF")
          /\ LongerThan(maxScannerTokenSize) # {} =>
                /\ Len(tokens) < Min(LongerThan(maxScannerTokenSize))
                /\ scanner.err = "ErrTooLong"
                /\ ReportsReadError(FinalError, "ErrTooLong", Len(tokens))

\* A line of exactly B bytes followed by LF ended the scan with ErrTooLong.
TokenBoundRejected ==
    /\ ScannedToTheEnd
    /\ Len(logical) = 1
    /\ logical[1].term = "LF"
    /\ Len(logical[1].text) = maxScannerTokenSize
    /\ scanner.err = "ErrTooLong"
    /\ tokens = <<>>

(***************************************************************************)
(* Decoding: structure and cross-reference validation                      *)
(***************************************************************************)
\* The most lines of a decoded input.
MaxDecodeLines == 3

dINDI == <<"0", " ", "@", "I", "1", "@", " ", "I", "N", "D", "I">>
dFAM  == <<"0", " ", "@", "F", "1", "@", " ", "F", "A", "M">>
dHUSB == <<"1", " ", "H", "U", "S", "B", " ", "@", "I", "1", "@">>
dWIFE == <<"1", " ", "W", "I", "F", "E", " ", "@", "V", "O", "I", "D", "@">>
dCHIL == <<"2", " ", "C", "H", "I", "L", " ", "@", "I", "9", "9", "@">>

DecodeTexts == {tHEAD, tTRLR, dINDI, dFAM, dHUSB, dWIFE, dCHIL, tNAME}
DecodeInputs == UNION {[1..n -> DecodeTexts] : n \in 0..MaxDecodeLines}

\* validateStructure(lines)
validateStructure(ls) ==
    IF Len(ls) = 0 THEN <<[type |-> "MissingHeaderError", Line |-> 0, Context |-> <<>>]>>
    ELSE LET hasHead == \E i \in 1..Len(ls) : ls[i].Level = 0 /\ ls[i].Tag = <<"H", "E", "A", "D">>
             hasTrlr == \E i \in 1..Len(ls) : ls[i].Level = 0 /\ ls[i].Tag = <<"T", "R", "L", "R">>
             first   == ls[1]
             last    == ls[Len(ls)]
         IN  (IF ~hasHead
              THEN <<[type |-> "MissingHeaderError", Line |-> first.LineNumber,
                      Context |-> formatLineContext(first)]>>
              ELSE <<>>)
             \o (IF ~hasTrlr
                 THEN <<[type |-> "MissingTrailerError", Line |-> last.LineNumber,
                         Context |-> formatLineContext(last)]>>
                 ELSE <<>>)

\* A faulty variant of isXRefValue that takes @VOID@ for a reference.
isXRefValueWithVoid(value) ==
    /\ HasPrefix(value, "@")
    /\ HasSuffix(value, "@")
    /\ Len(value) >= 3

\* isXRefValue(value)
isXRefValue(value) ==
    IF ~HasPrefix(value, "@") \/ ~HasSuffix(value, "@") THEN FALSE
    ELSE IF Len(value) < 3 THEN FALSE
    ELSE IF value = <<"@", "V", "O", "I", "D", "@">> THEN FALSE
    ELSE TRUE

\* The errors validateXRefs appends for the tags of one record, from tag i on.
RECURSIVE brokenInRecord(_, _, _)
brokenInRecord(d, record, i) ==
    IF i > Len(record.Tags) THEN <<>>
    ELSE LET tag == record.Tags[i] IN
         (IF isXRefValue(tag.Value) /\ tag.Value \notin d.XRefMap
          THEN <<[type |-> "BrokenXRefError", XRef |-> tag.Value, Line |-> tag.LineNumber,
                  Tag |-> tag.Tag, RecordXRef |-> record.XRef,
                  Context |-> TrimSpace(tag.Tag \o <<SP>> \o tag.Value)]>>
          ELSE <<>>)
         \o brokenInRecord(d, record, i + 1)

RECURSIVE brokenFrom(_, _)
brokenFrom(d, r) ==
    IF r > Len(d.Records) THEN <<>>
    ELSE brokenInRecord(d, d.Records[r], 1) \o brokenFrom(d, r + 1)

\* validateXRefs(doc); XRefMap is modelled by the set of its keys.
validateXRefs(d) == IF d.nil THEN <<>> ELSE brokenFrom(d, 1)

NoDocument == [nil |-> TRUE, Records |-> <<>>, XRefMap |-> {}]

\* A faulty variant of assembleWalk that begins a Record at every level-0 line,
\* HEAD and TRLR included.
RECURSIVE assembleWalkCountsAll(_, _, _, _)
assembleWalkCountsAll(ls, i, records, open) ==
    IF i > Len(ls) THEN records
    ELSE LET L == ls[i] IN
         IF L.Level = 0
         THEN assembleWalkCountsAll(ls, i + 1,
                  Append(records, [XRef |-> L.XRef, Type |-> L.Tag,
                                   LineNumber |-> L.LineNumber, Tags |-> <<>>]),
                  TRUE)
         ELSE assembleWalkCountsAll(ls, i + 1,
                  [records EXCEPT ![Len(records)].Tags =
                      Append(@, [Level |-> L.Level, Tag |-> L.Tag, Value |-> L.Value,
                                 XRef |-> L.XRef, LineNumber |-> L.LineNumber])],
                  TRUE)

\* The builder's walk: a level-0 line other than HEAD and TRLR begins a Record,
\* a line of a higher level becomes a Tag of the record in progress, in line
\* order. open says whether a record is in progress.
RECURSIVE assembleWalk(_, _, _, _)
assembleWalk(ls, i, records, open) ==
    IF i > Len(ls) THEN records
    ELSE LET L == ls[i] IN
         IF L.Level = 0
         THEN IF L.Tag \in {<<"H", "E", "A", "D">>, <<"T", "R", "L", "R">>}
              THEN assembleWalk(ls, i + 1, records, FALSE)
              ELSE assembleWalk(ls, i + 1,
                       Append(records, [XRef |-> L.XRef, Type |-> L.Tag,
                                        LineNumber |-> L.LineNumber, Tags |-> <<>>]),
                       TRUE)
         ELSE IF open
              THEN assembleWalk(ls, i + 1,
                       [records EXCEPT ![Len(records)].Tags =
                           Append(@, [Level |-> L.Level, Tag |-> L.Tag, Value |-> L.Value,
                                      XRef |-> L.XRef, LineNumber |-> L.LineNumber])],
                       TRUE)
              ELSE assembleWalk(ls, i + 1, records, FALSE)

\* The Document the builder makes of the lines: its records and the keys of
\* its xref index, the xrefs of the records.
assemble(ls) ==
    LET records == assembleWalk(ls, 1, <<>>, FALSE) IN
    [nil |-> FALSE, Records |-> records,
     XRefMap |-> {records[r].XRef : r \in {k \in 1..Len(records) : records[k].XRef # <<>>}}]

\* DecodeWithOptions(r, opts) with RecoverErrors set, step by step.
InitDecode ==
    /\ p = NewParser
    /\ pc = "idle"
    /\ lines = <<>>
    /\ errs = <<>>
    /\ prevLine = <<>>
    /\ hist = <<>>
    /\ ret = NoRet
    /\ doc = NoDoc
    /\ NoScan
    /\ scanner = NoScanner
    /\ val = [pc |-> "none"]
    /\ exp = [pc |-> "none"]
    /\ \E texts \in DecodeInputs, vs \in BOOLEAN, vx \in BOOLEAN :
          dec = [pc |-> "start", texts |-> texts,
                 opts |-> [ValidateStructure |-> vs, ValidateXRefs |-> vx],
                 lines |-> <<>>, doc |-> NoDocument, errs |-> <<>>]

\* The lines are parsed in recovery mode.
DecodeParse ==
    /\ dec.pc = "start"
    /\ LET st == recoveryLoop([p |-> Reset(p), lines |-> <<>>, errs |-> <<>>,
                               prevLine |-> <<>>], dec.texts)
       IN  /\ p' = st.p
           /\ dec' = [dec EXCEPT !.pc = "parsed", !.lines = st.lines, !.errs = st.errs]
    /\ UNCHANGED <<pc, lines, errs, prevLine, hist, ret, doc, scanVars, scanner, val, exp>>

\* "if opts.ValidateStructure": validateStructure(lines) joins the errors.
DecodeStructure ==
    /\ dec.pc = "parsed"
    /\ dec' = [dec EXCEPT !.pc = "checked",
                          !.errs = IF dec.opts.ValidateStructure
                                   THEN @ \o validateStructure(dec.lines) ELSE @]
    /\ UNCHANGED <<parserVars, scanVars, scanner, val, exp>>

\* The builder assembles the Document.
DecodeBuild ==
    /\ dec.pc = "checked"
    /\ dec' = [dec EXCEPT !.pc = "built", !.doc = assemble(dec.lines)]
    /\ UNCHANGED <<parserVars, scanVars, scanner, val, exp>>

\* "if opts.ValidateXRefs": validateXRefs(doc) joins the errors.
DecodeXRefs ==
    /\ dec.pc = "built"
    /\ dec' = [dec EXCEPT !.pc = "done",
                          !.errs = IF dec.opts.ValidateXRefs
                                   THEN @ \o validateXRefs(dec.doc) ELSE @]
    /\ UNCHANGED <<parserVars, scanVars, scanner, val, exp>>

NextDecode ==
    \/ DecodeParse
    \/ DecodeStructure
    \/ DecodeBuild
    \/ DecodeXRefs

SpecDecode == InitDecode /\ [][NextDecode]_vars

(***************************************************************************)
(* Properties of the decoder's validation                                  *)
(***************************************************************************)
ErrorsOfType(es, types) ==
    LET isOne(e) == e.type \in types IN SelectSeq(es, isOne)

StructureErrors == ErrorsOfType(dec.errs, {"MissingHeaderError", "MissingTrailerError"})

IsLevelZero(l, tag) == l.Level = 0 /\ l.Tag = tag

\* Exactly one level-0 HEAD, the first line, and exactly one level-0 TRLR, the
\* last level-0 line.
WellStructured(ls) ==
    /\ Len(ls) >= 1
    /\ IsLevelZero(ls[1], <<"H", "E", "A", "D">>)
    /\ Cardinality({i \in 1..Len(ls) : IsLevelZero(ls[i], <<"H", "E", "A", "D">>)}) = 1
    /\ Cardinality({i \in 1..Len(ls) : IsLevelZero(ls[i], <<"T", "R", "L", "R">>)}) = 1
    /\ \E i \in 1..Len(ls) :
          /\ IsLevelZero(ls[i], <<"T", "R", "L", "R">>)
          /\ \A j \in (i + 1)..Len(ls) : ls[j].Level # 0

StructureChecked ==
    dec.pc \in {"checked", "built", "done"} /\ dec.opts.ValidateStructure

\* C17: with validate_structure set, the structure check reports nothing if
\* and only if the lines have exactly one level-0 HEAD, first, and exactly one
\* level-0 TRLR, last; otherwise it reports MissingHeader or MissingTrailer.
C17_StructureCheck ==
    StructureChecked => (StructureErrors = <<>> <=> WellStructured(dec.lines))

\* What validateStructure does ensure, of one line or more: it reports
\* MissingHeader exactly when no level-0 line is a HEAD, and MissingTrailer
\* exactly when none is a TRLR.
StructureAsChecked ==
    (StructureChecked /\ dec.lines # <<>>) =>
        /\ (\E i \in 1..Len(StructureErrors) : StructureErrors[i].type = "MissingHeaderError")
              <=> ~\E i \in 1..Len(dec.lines) : IsLevelZero(dec.lines[i], <<"H", "E", "A", "D">>)
        /\ (\E i \in 1..Len(StructureErrors) : StructureErrors[i].type = "MissingTrailerError")
              <=> ~\E i \in 1..Len(dec.lines) : IsLevelZero(dec.lines[i], <<"T", "R", "L", "R">>)

\* The lines TRLR, HEAD passed the structure check.
StructureOutOfOrderPasses ==
    /\ StructureChecked
    /\ Len(dec.lines) = 2
    /\ IsLevelZero(dec.lines[1], <<"T", "R", "L", "R">>)
    /\ IsLevelZero(dec.lines[2], <<"H", "E", "A", "D">>)
    /\ StructureErrors = <<>>

BrokenXRefs == ErrorsOfType(dec.errs, {"BrokenXRefError"})

\* The tags of the document, each with the xref of its record, in order.
RECURSIVE TagsFrom(_, _)
TagsFrom(d, r) ==
    IF r > Len(d.Records) THEN <<>>
    ELSE [i \in 1..Len(d.Records[r].Tags) |->
             [tag |-> d.Records[r].Tags[i], record |-> d.Records[r].XRef]]
         \o TagsFrom(d, r + 1)

\* An xref literal @...@ other than @VOID@.
IsReference(value) ==
    /\ Len(value) >= 3
    /\ value[1] = "@"
    /\ value[Len(value)] = "@"
    /\ value # <<"@", "V", "O", "I", "D", "@">>

\* The tag's value refers to a record the document does not have.
IsDangling(t) ==
    /\ IsReference(t.tag.Value)
    /\ \A r \in 1..Len(dec.doc.Records) : dec.doc.Records[r].XRef # t.tag.Value

\* C18: with validate_xrefs set, the BrokenXRef errors are, in order, one for
\* each tag at any level of any record whose value is an xref literal other
\* than @VOID@ that no record carries, with that xref, the tag, its line and
\* the record's xref; no other tag gets one.
C18_BrokenXRefs ==
    (dec.pc = "done" /\ dec.opts.ValidateXRefs) =>
        LET dangling == SelectSeq(TagsFrom(dec.doc, 1), IsDangling) IN
        /\ Len(BrokenXRefs) = Len(dangling)
        /\ \A i \in 1..Len(dangling) :
              /\ BrokenXRefs[i].XRef = dangling[i].tag.Value
              /\ BrokenXRefs[i].Tag = dangling[i].tag.Tag
              /\ BrokenXRefs[i].Line = dangling[i].tag.LineNumber
              /\ BrokenXRefs[i].RecordXRef = dangling[i].record

\* A family with a level-1 reference to an existing record's neighbour and a
\* level-2 reference to @I99@: the level-2 tag is reported with the family's xref.
C18_Witness ==
    /\ dec.pc = "done"
    /\ dec.opts.ValidateXRefs
    /\ dec.texts = <<dFAM, dWIFE, dCHIL>>
    /\ Len(BrokenXRefs) = 1
    /\ BrokenXRefs[1].XRef = <<"@", "I", "9", "9", "@">>
    /\ BrokenXRefs[1].Tag = <<"C", "H", "I", "L">>
    /\ BrokenXRefs[1].Line = 3
    /\ BrokenXRefs[1].RecordXRef = <<"@", "F", "1", "@">>

\* A reference to a record the document has is not reported.
C18_WitnessResolved ==
    /\ dec.pc = "done"
    /\ dec.opts.ValidateXRefs
    /\ dec.texts = <<dINDI, dFAM, dHUSB>>
    /\ BrokenXRefs = <<>>

(***************************************************************************)
(* Export: the xref index of a document that comes without one             *)
(***************************************************************************)
\* The most records of an exported document.
MaxExportRecords == 3

\* A nil *gedcom.Record, and the records a document is made of.
NilRecord == [nil |-> TRUE, XRef |-> <<>>, Type |-> <<>>]
ExportRecords ==
    {NilRecord}
    \cup {[nil |-> FALSE, XRef |-> x, Type |-> t] :
            x \in {<<>>, <<"@", "I", "1", "@">>, <<"@", "I", "2", "@">>}, t \in {<<"I", "N", "D", "I">>, <<"F", "A", "M">>}}

\* A nil map, and make(map[string]*gedcom.Record); a map is a function from
\* xrefs to positions in doc.Records.
NilMap == [nil |-> TRUE, m |-> <<>>]
EmptyMap == [nil |-> FALSE, m |-> <<>>]

\* "xrefMap[record.XRef] = record" for the records from i on.
RECURSIVE xrefMapLoop(_, _, _)
xrefMapLoop(records, i, m) ==
    IF i > Len(records) THEN m
    ELSE IF records[i].nil \/ records[i].XRef = <<>>
         THEN xrefMapLoop(records, i + 1, m)
    ELSE xrefMapLoop(records, i + 1,
             [x \in (DOMAIN m) \cup {records[i].XRef} |->
                 IF x = records[i].XRef THEN i ELSE m[x]])

\* ensureXRefMap(doc)
ensureXRefMap(d) ==
    IF d.nil \/ ~d.XRefMap.nil THEN d
    ELSE [d EXCEPT !.XRefMap = [nil |-> FALSE, m |-> xrefMapLoop(d.Records, 1, <<>>)]]

\* BuildIntermediateModel(doc) is called on a document built by hand, with or
\* without an xref map.
InitExport ==
    /\ p = NewParser
    /\ pc = "idle"
    /\ lines = <<>>
    /\ errs = <<>>
    /\ prevLine = <<>>
    /\ hist = <<>>
    /\ ret = NoRet
    /\ doc = NoDoc
    /\ NoScan
    /\ scanner = NoScanner
    /\ dec = [pc |-> "none"]
    /\ val = [pc |-> "none"]
    /\ \E n \in 0..MaxExportRecords :
          \E records \in [1..n -> ExportRecords], xmap \in {NilMap, EmptyMap} :
              exp = [pc |-> "start",
                     doc |-> [nil |-> FALSE, Records |-> records, XRefMap |-> xmap],
                     given |-> xmap,
                     errs |-> <<>>]

\* "ensureXRefMap(doc)" in BuildIntermediateModel.
EnsureXRefMap ==
    /\ exp.pc = "start"
    /\ exp' = [exp EXCEPT !.pc = "indexed", !.doc = ensureXRefMap(exp.doc)]
    /\ UNCHANGED <<parserVars, scanVars, scanner, dec, val>>

NextExport == EnsureXRefMap

SpecExport == InitExport /\ [][NextExport]_vars

(***************************************************************************)
(* Properties of the xref index                                            *)
(***************************************************************************)
\* The positions of the records that carry the xref.
Carriers(x) ==
    {i \in 1..Len(exp.doc.Records) : ~exp.doc.Records[i].nil /\ exp.doc.Records[i].XRef = x}

IndexBuilt == exp.pc = "indexed" /\ exp.given.nil

\* C19: the index built maps every xref to the first record that carries it,
\* and two records with the same xref leave a DuplicateXRef error behind.
C19_FirstMappingKept ==
    IndexBuilt =>
        \A x \in DOMAIN exp.doc.XRefMap.m :
            /\ exp.doc.XRefMap.m[x] = Min(Carriers(x))
            /\ Cardinality(Carriers(x)) > 1 =>
                  \E i \in 1..Len(exp.errs) : exp.errs[i].type = "DuplicateXRef"

\* What ensureXRefMap does ensure: the index built holds every non-empty xref
\* of a record and maps it to the last record that carries it; a map the
\* document came with is left as it is.
XRefMapAsBuilt ==
    /\ IndexBuilt =>
          /\ ~exp.doc.XRefMap.nil
          /\ DOMAIN exp.doc.XRefMap.m =
                {exp.doc.Records[i].XRef :
                    i \in {k \in 1..Len(exp.doc.Records) :
                              ~exp.doc.Records[k].nil /\ exp.doc.Records[k].XRef # <<>>}}
          /\ \A x \in DOMAIN exp.doc.XRefMap.m : exp.doc.XRefMap.m[x] = Max(Carriers(x))
    /\ (exp.pc = "indexed" /\ ~exp.given.nil) => exp.doc.XRefMap = exp.given
    /\ exp.pc = "indexed" => exp.errs = <<>>

\* Two records carry @I1@: the index maps it to the second, and no error is
\* recorded.
XRefMapKeepsLast ==
    /\ IndexBuilt
    /\ Len(exp.doc.Records) = 2
    /\ Carriers(<<"@", "I", "1", "@">>) = {1, 2}
    /\ exp.doc.XRefMap.m[<<"@", "I", "1", "@">>] = 2
    /\ exp.errs = <<>>

(***************************************************************************)
(* Validator: the deprecated tags of the header's version                  *)
(***************************************************************************)
\* The most tags of the first record of a validated document.
MaxValTags == 2

\* gedcom.Version55, gedcom.Version551, gedcom.Version70
Version55 == "5.5"
Version551 == "5.5.1"
Version70 == "7.0"

\* The maps of validateV55Rules, validateV551Rules and validateV70Rules: tag to
\* reason.
deprecatedV55 ==
    [t \in {"UID", "CREA", "MIME"} |-> "introduced in GEDCOM 7.0"]
deprecatedV551 ==
    [t \in {"UID", "CREA", "MIME"} |-> "introduced in GEDCOM 7.0"]
deprecatedV70 ==
    [t \in {"AFN", "EMAIL", "FAX", "RFN", "REFN", "RIN", "WWW"} |-> "deprecated in GEDCOM 7.0"]

\* &ValidationError{Code: "DEPRECATED_TAG", Message: fmt.Sprintf("Tag %s is not
\* valid in GEDCOM %s: %s", tag, version, reason), Line: line, XRef: xref}
DeprecatedTagError(tag, version, reason, line, xref) ==
    [Code |-> "DEPRECATED_TAG",
     Message |-> [tag |-> tag, version |-> version, reason |-> reason],
     Line |-> line,
     XRef |-> xref]

\* A faulty variant of deprecatedInTags that reports the line of the record
\* instead of the line of the tag.
RECURSIVE deprecatedInTagsRecordLine(_, _, _, _)
deprecatedInTagsRecordLine(record, i, version, deprecated) ==
    IF i > Len(record.Tags) THEN <<>>
    ELSE (IF record.Tags[i].Tag \in DOMAIN deprecated
          THEN <<DeprecatedTagError(record.Tags[i].Tag, version,
                                    deprecated[record.Tags[i].Tag],
                                    record.LineNumber, record.XRef)>>
          ELSE <<>>)
         \o deprecatedInTagsRecordLine(record, i + 1, version, deprecated)

\* The loop of validateDeprecatedTags over record.Tags, from tag i on.
RECURSIVE deprecatedInTags(_, _, _, _)
deprecatedInTags(record, i, version, deprecated) ==
    IF i > Len(record.Tags) THEN <<>>
    ELSE (IF record.Tags[i].Tag \in DOMAIN deprecated
          THEN <<DeprecatedTagError(record.Tags[i].Tag, version,
                                    deprecated[record.Tags[i].Tag],
                                    record.Tags[i].LineNumber, record.XRef)>>
          ELSE <<>>)
         \o deprecatedInTags(record, i + 1, version, deprecated)

\* The body of the loop of validateDeprecatedTags over doc.Records.
deprecatedInRecordTopLevel(record, version, deprecated) ==
    IF record.nil THEN <<>>
    ELSE (IF record.Type \in DOMAIN deprecated
          THEN <<DeprecatedTagError(record.Type, version, deprecated[record.Type],
                                    record.LineNumber, record.XRef)>>
          ELSE <<>>)
         \o deprecatedInTags([record EXCEPT !.Tags = SelectSeq(record.Tags, LAMBDA t : t.Level = 1)],
                             1, version, deprecated)

deprecatedInRecord(record, version, deprecated) ==
    IF record.nil THEN <<>>
    ELSE (IF record.Type \in DOMAIN deprecated
          THEN <<DeprecatedTagError(record.Type, version, deprecated[record.Type],
                                    record.LineNumber, record.XRef)>>
          ELSE <<>>)
         \o deprecatedInTags(record, 1, version, deprecated)

\* validateDeprecatedTags(doc, version, deprecated), from record i on.
RECURSIVE deprecatedFrom(_, _, _, _)
deprecatedFrom(records, i, version, deprecated) ==
    IF i > Len(records) THEN <<>>
    ELSE deprecatedInRecord(records[i], version, deprecated)
         \o deprecatedFrom(records, i + 1, version, deprecated)

validateDeprecatedTags(d, version, deprecated) ==
    deprecatedFrom(d.Records, 1, version, deprecated)

validateV55Rules(d) == validateDeprecatedTags(d, Version55, deprecatedV55)
validateV551Rules(d) == validateDeprecatedTags(d, Version551, deprecatedV551)
validateV70Rules(d) == validateDeprecatedTags(d, Version70, deprecatedV70)

\* A faulty variant of validateVersionSpecific that assigns the issues of the
\* rule to v.errors instead of appending them.
validateVersionSpecificAssigns(errors, d) ==
    IF d.Header.nil THEN errors
    ELSE IF d.Header.Version = Version55 THEN validateV55Rules(d)
    ELSE IF d.Header.Version = Version551 THEN validateV551Rules(d)
    ELSE IF d.Header.Version = Version70 THEN validateV70Rules(d)
    ELSE errors

\* v.validateVersionSpecific(doc): the errors of the validator afterwards.
validateVersionSpecific(errors, d) ==
    IF d.Header.nil THEN errors
    ELSE IF d.Header.Version = Version55 THEN errors \o validateV55Rules(d)
    ELSE IF d.Header.Version = Version551 THEN errors \o validateV551Rules(d)
    ELSE IF d.Header.Version = Version70 THEN errors \o validateV70Rules(d)
    ELSE errors

\* The documents validated: a header or none, a first record of up to
\* MaxValTags tags, the k-th of them at level k, and possibly a second record;
\* the records and tags carry the numbers of their lines.
ValTagNames ==
    {"UID", "CREA", "MIME", "AFN", "EMAIL", "FAX", "RFN", "REFN", "RIN", "WWW", "NAME"}
ValHeaders ==
    {[nil |-> TRUE, Version |-> ""]}
    \cup {[nil |-> FALSE, Version |-> v] : v \in {Version55, Version551, Version70, "5.5.5"}}
ValNilRecord ==
    [nil |-> TRUE, Type |-> "", XRef |-> "", LineNumber |-> 0, Tags |-> <<>>]
ValFirstRecords ==
    UNION {{[nil |-> FALSE, Type |-> t, XRef |-> "@I1@", LineNumber |-> 2,
             Tags |-> [k \in 1..n |-> [Level |-> k, Tag |-> names[k], LineNumber |-> 2 + k]]] :
               t \in {"INDI", "UID", "RIN"}, names \in [1..n -> ValTagNames]} :
           n \in 0..MaxValTags}
ValSecondRecords(line) ==
    {<<>>, <<ValNilRecord>>}
    \cup {<<[nil |-> FALSE, Type |-> t, XRef |-> "@F1@", LineNumber |-> line, Tags |-> <<>>]>> :
            t \in {"FAM", "RIN"}}
    \cup {<<[nil |-> FALSE, Type |-> "FAM", XRef |-> "@F1@", LineNumber |-> line,
             Tags |-> <<[Level |-> 1, Tag |-> t, LineNumber |-> line + 1]>>]>> :
            t \in {"UID", "WWW"}}

InitValidate ==
    /\ p = NewParser
    /\ pc = "idle"
    /\ lines = <<>>
    /\ errs = <<>>
    /\ prevLine = <<>>
    /\ hist = <<>>
    /\ ret = NoRet
    /\ doc = NoDoc
    /\ NoScan
    /\ scanner = NoScanner
    /\ dec = [pc |-> "none"]
    /\ exp = [pc |-> "none"]
    /\ \E h \in ValHeaders, r \in ValFirstRecords :
          \E s \in ValSecondRecords(r.LineNumber + Len(r.Tags) + 1) :
              val = [pc |-> "start",
                     doc |-> [Header |-> h, Records |-> <<r>> \o s],
                     errors |-> <<>>]

\* "v.validateVersionSpecific(doc)"
ValidateVersionSpecific ==
    /\ val.pc = "start"
    /\ val' = [val EXCEPT !.pc = "versionChecked",
                          !.errors = validateVersionSpecific(val.errors, val.doc)]
    /\ UNCHANGED <<parserVars, scanVars, scanner, dec, exp>>

NextValidate == ValidateVersionSpecific

SpecValidate == InitValidate /\ [][NextValidate]_vars

(***************************************************************************)
(* Properties of the deprecated-tag rule                                   *)
(***************************************************************************)
\* The record types and the tags of the document, each with its line.
Occurrences ==
    LET recs == {val.doc.Records[i] : i \in {k \in 1..Len(val.doc.Records) : ~val.doc.Records[k].nil}}
    IN  {[Line |-> r.LineNumber, Tag |-> r.Type] : r \in recs}
        \cup UNION {{[Line |-> r.Tags[k].LineNumber, Tag |-> r.Tags[k].Tag] : k \in 1..Len(r.Tags)} :
                    r \in recs}

\* The tags the documentation lists for the version of the header.
ListedFor(h) ==
    IF h.nil THEN {}
    ELSE IF h.Version \in {"5.5", "5.5.1"} THEN {"UID", "CREA", "MIME"}
    ELSE IF h.Version = "7.0" THEN {"AFN", "RFN", "REFN", "RIN", "EMAIL", "FAX", "WWW"}
    ELSE {}

IssuesAt(line, tag) ==
    {i \in 1..Len(val.errors) :
        /\ val.errors[i].Code = "DEPRECATED_TAG"
        /\ val.errors[i].Line = line
        /\ val.errors[i].Message.tag = tag}

\* C20: after the version check every record type and every tag of a record,
\* at whatever level, that the header's version lists has exactly one
\* DEPRECATED_TAG issue, every issue is the issue of such an occurrence, and a
\* missing header or an unlisted version leaves no issue.
C20_DeprecatedByVersion ==
    val.pc = "versionChecked" =>
        /\ \A o \in Occurrences :
              Cardinality(IssuesAt(o.Line, o.Tag)) =
                  (IF o.Tag \in ListedFor(val.doc.Header) THEN 1 ELSE 0)
        /\ \A i \in 1..Len(val.errors) :
              /\ val.errors[i].Code = "DEPRECATED_TAG"
              /\ \E o \in Occurrences :
                    /\ o.Tag \in ListedFor(val.doc.Header)
                    /\ i \in IssuesAt(o.Line, o.Tag)
        /\ (val.doc.Header.nil \/ val.doc.Header.Version \notin {"5.5", "5.5.1", "7.0"})
              => val.errors = <<>>

\* A 7.0 document whose first record has a tag of 5.5 at level 1 and a
\* deprecated WWW at level 2: one issue, on the line of the WWW.
C20_Witness ==
    /\ val.pc = "versionChecked"
    /\ val.doc.Header = [nil |-> FALSE, Version |-> "7.0"]
    /\ Len(val.doc.Records[1].Tags) = 2
    /\ val.doc.Records[1].Tags[1].Tag = "UID"
    /\ val.doc.Records[1].Tags[2].Tag = "WWW"
    /\ val.doc.Records[1].Tags[2].Level = 2
    /\ Len(val.doc.Records) = 1
    /\ Len(val.errors) = 1
    /\ val.errors[1].Line = 4

\* A 5.5.1 document with a record of type UID and a second record carrying a
\* UID tag: two issues.
C20_WitnessRecordType ==
    /\ val.pc = "versionChecked"
    /\ val.doc.Header = [nil |-> FALSE, Version |-> "5.5.1"]
    /\ val.doc.Records[1].Type = "UID"
    /\ val.doc.Records[1].Tags = <<>>
    /\ Len(val.doc.Records) = 2
    /\ ~val.doc.Records[2].nil
    /\ val.doc.Records[2].Tags # <<>>
    /\ val.doc.Records[2].Tags[1].Tag = "UID"
    /\ Len(val.errors) = 2

\* A document full of deprecated tags under an unlisted version: no issue.
C20_WitnessUnknownVersion ==
    /\ val.pc = "versionChecked"
    /\ val.doc.Header = [nil |-> FALSE, Version |-> "5.5.5"]
    /\ val.doc.Records[1].Type = "RIN"
    /\ Len(val.doc.Records[1].Tags) = 2
    /\ val.doc.Records[1].Tags[1].Tag = "UID"
    /\ val.errors = <<>>

(***************************************************************************)
(* The order of the checks of ParseLine                                    *)
(***************************************************************************)
\* The composed line steps more than one level down from the line accepted
\* before it, at a level within the cap.
ComposedJump ==
    /\ ret.op = "ParseComposed"
    /\ ret.arg.lastLevel >= 0
    /\ ret.arg.level > ret.arg.lastLevel + 1
    /\ ret.arg.level <= MaxNestingDepth

\* C27: the hierarchy check comes after the xref and tag checks: a composed
\* line that steps more than one level down and carries a malformed xref is
\* rejected with InvalidXRef, and one that carries a well-formed or no xref and
\* a malformed tag is rejected with InvalidTag, never with LevelMismatch.
C27_CheckOrder ==
    ComposedJump =>
        /\ (ret.arg.xref # <<>> /\ ~XRefShape(ret.arg.xref))
              => RejectedWith(hist[1], "InvalidXRefError")
        /\ ((ret.arg.xref = <<>> \/ XRefShape(ret.arg.xref)) /\ ~TagShape(ret.arg.tag))
              => RejectedWith(hist[1], "InvalidTagError")

\* What ParseLine does: the hierarchy check comes right after the level checks,
\* so a line that steps more than one level down is rejected with LevelMismatch
\* whatever its xref and tag are.
CheckOrderAsBuilt ==
    ComposedJump => RejectedWith(hist[1], "LevelMismatchError")

\* "10 NA-ME" after a line of level 0 was rejected with LevelMismatch.
CheckOrderJumpFirst ==
    /\ ComposedJump
    /\ ret.arg.lastLevel = 0
    /\ ret.arg.level = 10
    /\ ret.arg.xref = <<>>
    /\ ret.arg.tag = <<"N", "A", "-", "M", "E">>
    /\ RejectedWith(hist[1], "LevelMismatchError")

(***************************************************************************)
(* What a rejected line and Reset leave of the parser                      *)
(***************************************************************************)
\* The step made a ParseLine call that returned an error.
RejectedStep ==
    /\ Len(hist') = Len(hist) + 1
    /\ ~Succeeded(hist'[Len(hist')])

\* C28: a ParseLine call that returns an error advances the line counter by one
\* and leaves the last accepted level and the nesting cap as they were; Reset
\* sets the counter to 0 and the last level to none and leaves the nesting cap.
C28_RejectedLineFrame ==
    [][/\ RejectedStep =>
            /\ p'.lineNumber = p.lineNumber + 1
            /\ p'.lastLevel = p.lastLevel
            /\ p'.maxDepth = p.maxDepth
       /\ ret'.op = "Reset" =>
            /\ p'.lineNumber = 0
            /\ p'.lastLevel = -1
            /\ p'.maxDepth = p.maxDepth]_vars

\* "0 HEAD" was accepted, a line of level 3 was rejected, and "1 NAME ..." was
\* accepted after it: the rejected line left the last level at 0.
C28_Witness ==
    /\ Len(hist) = 3
    /\ Succeeded(hist[1]) /\ hist[1].line.Level = 0
    /\ ~Succeeded(hist[2])
    /\ StatedLevel(hist[2].input).ok /\ StatedLevel(hist[2].input).val = 3
    /\ Succeeded(hist[3]) /\ hist[3].line.Level = 1
    /\ p.lastLevel = 1
    /\ p.lineNumber = 3

\* Reset was called on a parser whose nesting cap had been set.
C28_WitnessReset ==
    /\ ret.op = "Reset"
    /\ p.maxDepth \notin {0, MaxNestingDepth}
    /\ p.lineNumber = 0
    /\ p.lastLevel = -1

(***************************************************************************)
(* Validate: the Document of a decode and the rules run on it              *)
(***************************************************************************)
\* A tag, record type or version as the Go string the validator compares.
goString(t) ==
    CASE t = <<"H", "E", "A", "D">> -> "HEAD" [] t = <<"T", "R", "L", "R">> -> "TRLR" [] t = <<"G", "E", "D", "C">> -> "GEDC"
      [] t = <<"V", "E", "R", "S">> -> "VERS" [] t = <<"I", "N", "D", "I">> -> "INDI" [] t = <<"F", "A", "M">> -> "FAM"
      [] t = <<"U", "I", "D">> -> "UID"   [] t = <<"N", "A", "M", "E">> -> "NAME" [] t = <<"F", "A", "M", "C">> -> "FAMC"
      [] t = <<"H", "U", "S", "B">> -> "HUSB" [] t = <<"W", "I", "F", "E">> -> "WIFE" [] t = <<"D", "A", "T", "E">> -> "DATE"
      [] t = <<"M", "A", "R", "R">> -> "MARR" [] t = <<"R", "I", "N">> -> "RIN"
      [] t = <<"5", ".", "5">> -> "5.5"   [] t = <<"5", ".", "5", ".", "1">> -> "5.5.1" [] t = <<"7", ".", "0">> -> "7.0"
      [] OTHER -> ""

\* The Header of the lines: nil without a level-0 HEAD line; its Version is the
\* value of the first level-2 VERS line under a level-1 GEDC line of the HEAD.
headerOf(ls) ==
    LET heads == {i \in 1..Len(ls) : ls[i].Level = 0 /\ ls[i].Tag = <<"H", "E", "A", "D">>}
        h     == Min(heads)
        end   == Min({i \in (h + 1)..Len(ls) : ls[i].Level = 0} \cup {Len(ls) + 1})
        vers  == {i \in (h + 2)..(end - 1) :
                     /\ ls[i].Level = 2 /\ ls[i].Tag = <<"V", "E", "R", "S">>
                     /\ \E g \in (h + 1)..(i - 1) :
                           /\ ls[g].Level = 1 /\ ls[g].Tag = <<"G", "E", "D", "C">>
                           /\ \A j \in (g + 1)..(i - 1) : ls[j].Level >= 2}
    IN  IF heads = {} THEN [nil |-> TRUE, Version |-> ""]
        ELSE [nil |-> FALSE,
              Version |-> IF vers = {} THEN "" ELSE goString(ls[Min(vers)].Value)]

\* The Document the validator is given for the lines of a decode: the header
\* and the records the builder's walk makes, HEAD and TRLR not among them.
documentOf(ls) ==
    LET records == assembleWalk(ls, 1, <<>>, FALSE) IN
    [Header |-> headerOf(ls),
     Records |-> [r \in 1..Len(records) |->
                    [nil |-> FALSE,
                     XRef |-> records[r].XRef,
                     Type |-> goString(records[r].Type),
                     LineNumber |-> records[r].LineNumber,
                     Tags |-> [k \in 1..Len(records[r].Tags) |->
                                 [Level |-> records[r].Tags[k].Level,
                                  Tag |-> goString(records[r].Tags[k].Tag),
                                  Value |-> records[r].Tags[k].Value,
                                  LineNumber |-> records[r].Tags[k].LineNumber]]]]]

\* isStandardXRef(xref)
isStandardXRefWithUnderscore(xref) ==
    /\ Len(xref) >= 3
    /\ xref[1] = "@" /\ xref[Len(xref)] = "@"
    /\ \A i \in 2..(Len(xref) - 1) : xref[i] \in Letters \cup Digits \cup {"_"}

isStandardXRef(xref) ==
    IF Len(xref) < 3 THEN FALSE
    ELSE IF xref[1] # "@" \/ xref[Len(xref)] # "@" THEN FALSE
    ELSE \A i \in 2..(Len(xref) - 1) : xref[i] \in Letters \cup Digits

\* v.validateXRefFormats(doc): the errors of the validator afterwards.
RECURSIVE validateXRefFormats(_, _, _)
validateXRefFormats(errors, d, r) ==
    IF r > Len(d.Records) THEN errors
    ELSE LET record == d.Records[r] IN
         IF record.XRef = <<>> \/ isStandardXRef(record.XRef)
         THEN validateXRefFormats(errors, d, r + 1)
         ELSE validateXRefFormats(
                  Append(errors, [Code |-> "NON_STANDARD_XREF",
                                  Message |-> [xref |-> record.XRef],
                                  Line |-> record.LineNumber,
                                  XRef |-> record.XRef]),
                  d, r + 1)

\* gedcom.ParseDate(value) followed by parsed.Validate(), for dates of the forms
\* "(phrase)", "year", "month year" and "day month year" of the Gregorian
\* calendar: "nil", "parse" (ParseDate fails) or "validate" (Validate fails).
dateError(value) ==
    LET f == Fields(value)
        months == <<<<"J", "A", "N">>, <<"F", "E", "B">>, <<"M", "A", "R">>, <<"A", "P", "R">>, <<"M", "A", "Y">>, <<"J", "U", "N">>,
                    <<"J", "U", "L">>, <<"A", "U", "G">>, <<"S", "E", "P">>, <<"O", "C", "T">>, <<"N", "O", "V">>, <<"D", "E", "C">>>>
        isMonth(m) == \E i \in 1..Len(months) : months[i] = m
        isYear(y) == y # <<>> /\ \A i \in 1..Len(y) : y[i] \in Digits
        leap(y) == (y % 4 = 0 /\ y % 100 # 0) \/ y % 400 = 0
        daysIn(m, y) == IF m = <<"F", "E", "B">> THEN (IF leap(y) THEN 29 ELSE 28)
                        ELSE IF m \in {<<"A", "P", "R">>, <<"J", "U", "N">>, <<"S", "E", "P">>, <<"N", "O", "V">>} THEN 30 ELSE 31
    IN  IF value[1] = "(" /\ value[Len(value)] = ")" THEN "nil"
        ELSE IF Len(f) = 1 THEN (IF isYear(f[1]) THEN "nil" ELSE "parse")
        ELSE IF Len(f) = 2 THEN (IF isMonth(f[1]) /\ isYear(f[2]) THEN "nil" ELSE "parse")
        ELSE IF Len(f) = 3 /\ isYear(f[1]) /\ isMonth(f[2]) /\ isYear(f[3])
                           /\ DigitsValue(f[1], 0) \in 1..31
             THEN (IF DigitsValue(f[1], 0) <= daysIn(f[2], DigitsValue(f[3], 0))
                   THEN "nil" ELSE "validate")
        ELSE "parse"

\* v.validateDates(doc): the errors of the validator afterwards, from tag k of
\* record r on.
RECURSIVE validateDates(_, _, _, _)
validateDates(errors, d, r, k) ==
    IF r > Len(d.Records) THEN errors
    ELSE IF k > Len(d.Records[r].Tags) THEN validateDates(errors, d, r + 1, 1)
    ELSE LET tag   == d.Records[r].Tags[k]
             value == TrimSpace(tag.Value)
         IN  IF tag.Tag # "DATE" \/ value = <<>> \/ dateError(value) = "nil"
             THEN validateDates(errors, d, r, k + 1)
             ELSE validateDates(
                      Append(errors, [Code |-> "INVALID_DATE",
                                      Message |-> [value |-> value, reason |-> dateError(value)],
                                      Line |-> tag.LineNumber,
                                      XRef |-> <<>>]),
                      d, r, k + 1)

\* doc.Individuals(): the individuals of the INDI records, in record order,
\* each with the families its level-1 FAMC tags name.
Individuals(d) ==
    LET recs == SelectSeq(d.Records, LAMBDA r : r.Type = "INDI") IN
    [i \in 1..Len(recs) |->
        LET famc == SelectSeq(recs[i].Tags, LAMBDA t : t.Level = 1 /\ t.Tag = "FAMC") IN
        [XRef |-> recs[i].XRef,
         ChildInFamilies |-> [k \in 1..Len(famc) |-> famc[k].Value]]]

\* individual.Parents(doc), as xrefs: for each family the individual is a
\* child of, the husband and then the wife, when the family and they are
\* records of the document (FAMC -> HUSB, WIFE through the xref index).
Parents(d, ind) ==
    LET recordsOf(x, type) == SelectSeq(d.Records, LAMBDA r : r.XRef = x /\ r.Type = type)
        spouse(fam, tag) ==
            LET links == SelectSeq(fam.Tags, LAMBDA t : t.Level = 1 /\ t.Tag = tag) IN
            IF links = <<>> \/ recordsOf(links[1].Value, "INDI") = <<>>
            THEN <<>> ELSE <<links[1].Value>>
        RECURSIVE from(_)
        from(k) ==
            IF k > Len(ind.ChildInFamilies) THEN <<>>
            ELSE LET fams == recordsOf(ind.ChildInFamilies[k], "FAM") IN
                 (IF fams = <<>> THEN <<>>
                  ELSE spouse(fams[1], "HUSB") \o spouse(fams[1], "WIFE"))
                 \o from(k + 1)
    IN  from(1)

\* The individual with the xref.
IndividualOf(d, x) ==
    LET inds == Individuals(d) IN
    inds[Min({i \in 1..Len(inds) : inds[i].XRef = x})]

\* No root is being examined: k is the next individual of the loop of
\* validateCircularRelationships.
NoSearch(k) ==
    [k |-> k, stack |-> <<>>, visiting |-> {}, visited |-> {}, expanded |-> <<>>]

\* "visiting[current.XRef] = true" and the loop over current.Parents(doc) begins:
\* a frame of hasCircularAncestry.
Enter(d, search, x) ==
    [search EXCEPT
       !.stack = Append(@, [current |-> x, parents |-> Parents(d, IndividualOf(d, x)), i |-> 1]),
       !.visiting = @ \cup {x},
       !.expanded = Append(@, x)]

CircularError(x) ==
    [Code |-> "CIRCULAR_REFERENCE", Message |-> [xref |-> x], Line |-> 0, XRef |-> x]

\* The loop of validateCircularRelationships: the next individual becomes the
\* root of a search with fresh visiting and visited maps, or the rule ends.
CircRoot ==
    /\ val.pc = "circular"
    /\ val.search.stack = <<>>
    /\ LET inds == Individuals(val.doc)
           k    == val.search.k
       IN  val' = [(IF k > Len(inds) THEN [val EXCEPT !.pc = "other"]
                  ELSE IF inds[k].XRef = <<>> THEN [val EXCEPT !.search = NoSearch(k + 1)]
                  ELSE [val EXCEPT !.search = Enter(val.doc, NoSearch(k), inds[k].XRef)])
                  EXCEPT !.steps = @ + 1]
    /\ UNCHANGED <<parserVars, scanVars, scanner, dec, exp>>

\* One turn of the loop over the parents in the innermost frame, with the
\* recursive call on the parent as far as its first three checks.
CircParentAnyCycle ==
    /\ val.pc = "circular"
    /\ val.search.stack # <<>>
    /\ LET s      == val.search
           n      == Len(s.stack)
           top    == s.stack[n]
           target == s.stack[1].current
           parent == top.parents[top.i]
           moved  == [s EXCEPT !.stack[n].i = @ + 1]
       IN  /\ top.i <= Len(top.parents)
           /\ val' = [(IF parent = target \/ parent \in s.visiting
                     THEN [val EXCEPT !.errors = Append(@, CircularError(target)),
                                      !.search = NoSearch(s.k + 1)]
                     ELSE IF parent \in s.visited
                     THEN [val EXCEPT !.search = moved]
                     ELSE [val EXCEPT !.search = Enter(val.doc, moved, parent)])
                  EXCEPT !.steps = @ + 1]
    /\ UNCHANGED <<parserVars, scanVars, scanner, dec, exp>>

CircParentNoMarks ==
    /\ val.pc = "circular"
    /\ val.search.stack # <<>>
    /\ LET s      == val.search
           n      == Len(s.stack)
           top    == s.stack[n]
           target == s.stack[1].current
           parent == top.parents[top.i]
           moved  == [s EXCEPT !.stack[n].i = @ + 1]
       IN  /\ top.i <= Len(top.parents)
           /\ val' = [(IF parent = target
                     THEN [val EXCEPT !.errors = Append(@, CircularError(target)),
                                      !.search = NoSearch(s.k + 1)]
                     ELSE [val EXCEPT !.search = Enter(val.doc, moved, parent)])
                  EXCEPT !.steps = @ + 1]
    /\ UNCHANGED <<parserVars, scanVars, scanner, dec, exp>>

CircParent ==
    /\ val.pc = "circular"
    /\ val.search.stack # <<>>
    /\ LET s      == val.search
           n      == Len(s.stack)
           top    == s.stack[n]
           target == s.stack[1].current
           parent == top.parents[top.i]
           moved  == [s EXCEPT !.stack[n].i = @ + 1]
       IN  /\ top.i <= Len(top.parents)
           /\ val' = [(IF parent = target
                     THEN [val EXCEPT !.errors = Append(@, CircularError(target)),
                                      !.search = NoSearch(s.k + 1)]
                     ELSE IF parent \in s.visiting \/ parent \in s.visited
                     THEN [val EXCEPT !.search = moved]
                     ELSE [val EXCEPT !.search = Enter(val.doc, moved, parent)])
                  EXCEPT !.steps = @ + 1]
    /\ UNCHANGED <<parserVars, scanVars, scanner, dec, exp>>

\* The loop over the parents is over: the frame's individual goes from visiting
\* to visited and the frame returns false, to its caller or to the loop of
\* validateCircularRelationships.
CircReturn ==
    /\ val.pc = "circular"
    /\ val.search.stack # <<>>
    /\ LET s   == val.search
           n   == Len(s.stack)
           top == s.stack[n]
       IN  /\ top.i > Len(top.parents)
           /\ val' = [(IF n = 1 THEN [val EXCEPT !.search = NoSearch(s.k + 1)]
                     ELSE [val EXCEPT !.search =
                              [s EXCEPT !.stack = SubSeq(@, 1, n - 1),
                                        !.visiting = @ \ {top.current},
                                        !.visited = @ \cup {top.current}]])
                  EXCEPT !.steps = @ + 1]
    /\ UNCHANGED <<parserVars, scanVars, scanner, dec, exp>>

\* The most data records between the HEAD and the TRLR of a decoded text.
MaxDataRecords == 2

\* The texts decoded: a HEAD with or without its version, up to MaxDataRecords
\* records, each a run of lines, and the TRLR.
RuleTexts ==
    LET heads == {<<tHEAD>>,
                  <<tHEAD, <<"1", " ", "G", "E", "D", "C">>, <<"2", " ", "V", "E", "R", "S", " ", "5", ".", "5">>>>,
                  <<tHEAD, <<"1", " ", "G", "E", "D", "C">>, <<"2", " ", "V", "E", "R", "S", " ", "7", ".", "0">>>>}
        data  == {<<<<"0", " ", "@", "I", "1", "@", " ", "I", "N", "D", "I">>>>,
                  <<<<"0", " ", "@", "I", "1", "@", " ", "I", "N", "D", "I">>, <<"1", " ", "U", "I", "D", " ", "a", "b", "c">>>>,
                  <<<<"0", " ", "@", "I", "_", "2", "@", " ", "I", "N", "D", "I">>, tNAME>>,
                  <<<<"0", " ", "@", "F", "_", "1", "@", " ", "F", "A", "M">>, <<"1", " ", "M", "A", "R", "R">>, <<"2", " ", "D", "A", "T", "E", " ", "3", "1", " ", "F", "E", "B", " ", "2", "0", "0", "0">>>>,
                  <<<<"0", " ", "@", "I", "3", "@", " ", "I", "N", "D", "I">>, <<"1", " ", "R", "I", "N", " ", "7">>, <<"2", " ", "D", "A", "T", "E", " ", " ", "J", "A", "N", " ", "2", "0", "0", "0", " ">>>>}
        RECURSIVE flat(_)
        flat(rs) == IF rs = <<>> THEN <<>> ELSE Head(rs) \o flat(Tail(rs))
    IN  {h \o flat(rs) \o <<tTRLR>> :
            h \in heads, rs \in UNION {[1..n -> data] : n \in 0..MaxDataRecords}}

\* Documents built by hand, of one or two records with any string as xref.
XRefDocs ==
    LET xrefs == {<<>>, <<"@", "I", "1", "@">>, <<"@", "a", "Z", "9", "@">>, <<"@", "I", "_", "1", "@">>, <<"@", "_", "@">>, <<"@", "@">>, <<"@", "I", "-", "1", "@">>,
                  <<"@">>, <<"I", "1">>, <<"@", "I", "1">>, <<"@", "I", "@", "1", "@">>}
        rec(x, line) == [nil |-> FALSE, XRef |-> x, Type |-> "INDI", LineNumber |-> line,
                        Tags |-> <<>>]
    IN  {[Header |-> [nil |-> FALSE, Version |-> "5.5"], Records |-> <<rec(x, 1)>>] :
            x \in xrefs}
        \cup {[Header |-> [nil |-> FALSE, Version |-> "5.5"],
               Records |-> <<rec(x, 1), rec(y, 2)>>] : x \in xrefs, y \in xrefs}

\* Documents built by hand, of three individuals: each is the child of a family
\* of its own when it has a parent; the husband is any of the three, the wife
\* the first of them or an xref no record carries.
GraphDocs ==
    LET inds == <<<<"@", "I", "1", "@">>, <<"@", "I", "2", "@">>, <<"@", "I", "3", "@">>>>
        fams == <<<<"@", "F", "1", "@">>, <<"@", "F", "2", "@">>, <<"@", "F", "3", "@">>>>
        none == <<>>
        link(tag, x, line) ==
            IF x = none THEN <<>>
            ELSE <<[Level |-> 1, Tag |-> tag, Value |-> x, LineNumber |-> line]>>
        indi(i, par) ==
            [nil |-> FALSE, XRef |-> inds[i], Type |-> "INDI", LineNumber |-> 2 * i - 1,
             Tags |-> IF par[i].h = none /\ par[i].w = none THEN <<>>
                      ELSE link("FAMC", fams[i], 2 * i)]
        fam(i, par) ==
            IF par[i].h = none /\ par[i].w = none THEN <<>>
            ELSE <<[nil |-> FALSE, XRef |-> fams[i], Type |-> "FAM", LineNumber |-> 3 * i + 4,
                    Tags |-> link("HUSB", par[i].h, 3 * i + 5)
                             \o link("WIFE", par[i].w, 3 * i + 6)]>>
    IN  {[Header |-> [nil |-> FALSE, Version |-> "5.5"],
          Records |-> <<indi(1, par), indi(2, par), indi(3, par)>>
                      \o fam(1, par) \o fam(2, par) \o fam(3, par)] :
            par \in [1..3 -> [h : {none, <<"@", "I", "1", "@">>, <<"@", "I", "2", "@">>, <<"@", "I", "3", "@">>},
                              w : {none, <<"@", "I", "1", "@">>, <<"@", "I", "9", "@">>}]]}

NoValDoc == [Header |-> [nil |-> TRUE, Version |-> ""], Records |-> <<>>]

\* A text about to be decoded and validated, or a document built by hand about
\* to be validated; a validator may hold an issue of an earlier use.
InitRules ==
    /\ p = NewParser
    /\ pc = "idle"
    /\ lines = <<>>
    /\ errs = <<>>
    /\ prevLine = <<>>
    /\ hist = <<>>
    /\ ret = NoRet
    /\ doc = NoDoc
    /\ NoScan
    /\ scanner = NoScanner
    /\ dec = [pc |-> "none"]
    /\ exp = [pc |-> "none"]
    /\ \/ \E texts \in RuleTexts :
             val = [pc |-> "decode", texts |-> texts, doc |-> NoValDoc,
                    errors |-> <<>>, search |-> NoSearch(1), steps |-> 0]
       \/ \E d \in XRefDocs,
             prior \in {<<>>, <<[Code |-> "PRIOR", Message |-> [xref |-> <<>>],
                                 Line |-> 0, XRef |-> <<>>]>>} :
             val = [pc |-> "version", texts |-> <<>>, doc |-> d,
                    errors |-> prior, search |-> NoSearch(1), steps |-> 0]
       \/ \E d \in GraphDocs :
             val = [pc |-> "version", texts |-> <<>>, doc |-> d,
                    errors |-> <<>>, search |-> NoSearch(1), steps |-> 0]

\* decoder.Decode(strings.NewReader(input)): strict parse, then the builder.
RuleDecode ==
    /\ val.pc = "decode"
    /\ LET st == strictLoop([p |-> NewParser, lines |-> <<>>, prevLine |-> <<>>,
                             err |-> NoErr], val.texts)
       IN  /\ st.err.type = "nil"
           /\ val' = [val EXCEPT !.pc = "version", !.doc = documentOf(st.lines)]
    /\ UNCHANGED <<parserVars, scanVars, scanner, dec, exp>>

\* v.Validate(doc), rule by rule.
RuleVersion ==
    /\ val.pc = "version"
    /\ val' = [val EXCEPT !.pc = "xrefs",
                          !.errors = validateVersionSpecific(val.errors, val.doc)]
    /\ UNCHANGED <<parserVars, scanVars, scanner, dec, exp>>

RuleXRefFormats ==
    /\ val.pc = "xrefs"
    /\ val' = [val EXCEPT !.pc = "dates",
                          !.errors = validateXRefFormats(val.errors, val.doc, 1)]
    /\ UNCHANGED <<parserVars, scanVars, scanner, dec, exp>>

RuleDates ==
    /\ val.pc = "dates"
    /\ val' = [val EXCEPT !.pc = "circular",
                          !.errors = validateDates(val.errors, val.doc, 1, 1)]
    /\ UNCHANGED <<parserVars, scanVars, scanner, dec, exp>>

\* The rules of Validate that are not among the four above: they may add an
\* issue of their own.
RuleOther ==
    /\ val.pc = "other"
    /\ \E more \in {<<>>, <<[Code |-> "OTHER", Message |-> [xref |-> <<>>],
                             Line |-> 0, XRef |-> <<>>]>>} :
          val' = [val EXCEPT !.pc = "done", !.errors = @ \o more]
    /\ UNCHANGED <<parserVars, scanVars, scanner, dec, exp>>

NextRules ==
    \/ RuleDecode
    \/ RuleVersion
    \/ RuleXRefFormats
    \/ RuleDates
    \/ CircRoot
    \/ CircParent
    \/ CircReturn
    \/ RuleOther

SpecRules == InitRules /\ [][NextRules]_vars

(***************************************************************************)
(* Properties of Validate on decoded and hand-built documents              *)
(***************************************************************************)
\* The text of the deprecated-tag scenario.
ScenarioUID ==
    <<tHEAD, <<"1", " ", "G", "E", "D", "C">>, <<"2", " ", "V", "E", "R", "S", " ", "5", ".", "5">>, <<"0", " ", "@", "I", "1", "@", " ", "I", "N", "D", "I">>, <<"1", " ", "U", "I", "D", " ", "a", "b", "c">>, tTRLR>>

IssuesOf(code) == SelectSeq(val.errors, LAMBDA e : e.Code = code)

\* C21 as stated: for the scenario text the validator emits exactly one issue,
\* a DEPRECATED_TAG for the tag UID with line 4.
C21_ScenarioLine4 ==
    (val.pc = "done" /\ val.texts = ScenarioUID) =>
        /\ Len(val.errors) = 1
        /\ val.errors[1].Code = "DEPRECATED_TAG"
        /\ val.errors[1].Message.tag = "UID"
        /\ val.errors[1].Line = 4

\* C21 as amended: for the scenario text the validator emits exactly one
\* DEPRECATED_TAG issue, for the tag UID with line 5, the line of "1 UID abc",
\* and the rules for deprecated tags, xref formats, dates and circular ancestry
\* emit no other issue.
C21_ScenarioLine5 ==
    (val.pc = "done" /\ val.texts = ScenarioUID) =>
        /\ Len(IssuesOf("DEPRECATED_TAG")) = 1
        /\ IssuesOf("DEPRECATED_TAG")[1].Message.tag = "UID"
        /\ IssuesOf("DEPRECATED_TAG")[1].Line = 5
        /\ \A i \in 1..Len(val.errors) : val.errors[i].Code \in {"DEPRECATED_TAG", "OTHER"}

\* The scenario text was validated and the one issue is on line 5.
C21_Witness ==
    /\ val.pc = "done"
    /\ val.texts = ScenarioUID
    /\ Len(val.errors) = 1
    /\ val.errors[1].Code = "DEPRECATED_TAG"
    /\ val.errors[1].Line = 5
    /\ val.doc.Records[1].LineNumber = 4

\* @[A-Za-z0-9]+@
MatchesStandard(xref) ==
    /\ Len(xref) >= 3
    /\ xref[1] = "@"
    /\ xref[Len(xref)] = "@"
    /\ \A i \in 2..(Len(xref) - 1) : xref[i] \in Letters \cup Digits

XRefFormatsChecked == val.pc \in {"dates", "circular", "other", "done"}

\* C22: once validateXRefFormats has run, every record whose xref is not empty
\* and does not match @[A-Za-z0-9]+@ has exactly one NON_STANDARD_XREF issue,
\* with its xref and line, every other record has none, and there is no
\* NON_STANDARD_XREF issue besides.
C22_NonStandardXRefs ==
    XRefFormatsChecked =>
        LET issues == IssuesOf("NON_STANDARD_XREF")
            flagged == {r \in 1..Len(val.doc.Records) :
                           /\ val.doc.Records[r].XRef # <<>>
                           /\ ~MatchesStandard(val.doc.Records[r].XRef)}
        IN  /\ \A r \in 1..Len(val.doc.Records) :
                  Cardinality({i \in 1..Len(issues) :
                                  /\ issues[i].Line = val.doc.Records[r].LineNumber
                                  /\ issues[i].XRef = val.doc.Records[r].XRef})
                      = (IF r \in flagged THEN 1 ELSE 0)
            /\ Len(issues) = Cardinality(flagged)

\* A decoded text whose record carries @I_2@, which the parser accepted: the
\* record is flagged.
C22_Witness ==
    /\ XRefFormatsChecked
    /\ val.texts # <<>>
    /\ Len(val.doc.Records) = 1
    /\ val.doc.Records[1].XRef = <<"@", "I", "_", "2", "@">>
    /\ Len(IssuesOf("NON_STANDARD_XREF")) = 1
    /\ IssuesOf("NON_STANDARD_XREF")[1].XRef = <<"@", "I", "_", "2", "@">>

\* A hand-built document with an xref of empty body and a standard one: the
\* first is flagged, the second is not.
C22_WitnessEmptyBody ==
    /\ XRefFormatsChecked
    /\ Len(val.doc.Records) = 2
    /\ val.doc.Records[1].XRef = <<"@", "@">>
    /\ val.doc.Records[2].XRef = <<"@", "a", "Z", "9", "@">>
    /\ Len(IssuesOf("NON_STANDARD_XREF")) = 1
    /\ IssuesOf("NON_STANDARD_XREF")[1].Line = 1

\* The parents of the individual with the xref, and its ancestors: whoever is
\* reached by one or more parent links.
ParentSet(x) ==
    LET ps == Parents(val.doc, IndividualOf(val.doc, x)) IN {ps[i] : i \in 1..Len(ps)}

RECURSIVE Closure(_)
Closure(S) ==
    LET T == S \cup UNION {ParentSet(y) : y \in S} IN
    IF T = S THEN S ELSE Closure(T)

Ancestors(x) == Closure(ParentSet(x))

IndividualXRefs ==
    LET inds == Individuals(val.doc) IN {inds[i].XRef : i \in 1..Len(inds)} \ {<<>>}

CircularIssuesFor(x) ==
    {i \in 1..Len(val.errors) :
        val.errors[i].Code = "CIRCULAR_REFERENCE" /\ val.errors[i].XRef = x}

CircularChecked == val.pc \in {"other", "done"}

\* C23: once validateCircularRelationships has run, an individual has one
\* CIRCULAR_REFERENCE issue if it is among its own ancestors and none
\* otherwise, and every CIRCULAR_REFERENCE issue is the issue of an individual.
C23_CircularIffOwnAncestor ==
    CircularChecked =>
        /\ \A x \in IndividualXRefs :
              Cardinality(CircularIssuesFor(x)) = (IF x \in Ancestors(x) THEN 1 ELSE 0)
        /\ Len(IssuesOf("CIRCULAR_REFERENCE")) =
              Cardinality({x \in IndividualXRefs : x \in Ancestors(x)})

\* @I1@ and @I2@ are each other's parent and @I3@ is a child of @I2@: the first
\* two have an issue, the third, a descendant of the cycle, has none.
C23_Witness ==
    /\ CircularChecked
    /\ IndividualXRefs = {<<"@", "I", "1", "@">>, <<"@", "I", "2", "@">>, <<"@", "I", "3", "@">>}
    /\ ParentSet(<<"@", "I", "1", "@">>) = {<<"@", "I", "2", "@">>}
    /\ ParentSet(<<"@", "I", "2", "@">>) = {<<"@", "I", "1", "@">>}
    /\ ParentSet(<<"@", "I", "3", "@">>) = {<<"@", "I", "2", "@">>}
    /\ Cardinality(CircularIssuesFor(<<"@", "I", "1", "@">>)) = 1
    /\ Cardinality(CircularIssuesFor(<<"@", "I", "2", "@">>)) = 1
    /\ CircularIssuesFor(<<"@", "I", "3", "@">>) = {}

\* @I1@ is the parent of @I2@ and both are parents of @I3@: no issue.
C23_WitnessSharedAncestor ==
    /\ CircularChecked
    /\ IndividualXRefs = {<<"@", "I", "1", "@">>, <<"@", "I", "2", "@">>, <<"@", "I", "3", "@">>}
    /\ ParentSet(<<"@", "I", "1", "@">>) = {}
    /\ ParentSet(<<"@", "I", "2", "@">>) = {<<"@", "I", "1", "@">>}
    /\ ParentSet(<<"@", "I", "3", "@">>) = {<<"@", "I", "1", "@">>, <<"@", "I", "2", "@">>}
    /\ IssuesOf("CIRCULAR_REFERENCE") = <<>>

\* C24: a step of any of the four rules (deprecated tags, xref formats, dates,
\* circular ancestry) leaves the issues the validator already holds in place
\* and in order, adding new ones only after them, and leaves the Document as it
\* was.
C24_RulesAppendOnly ==
    [][val.pc \in {"version", "xrefs", "dates", "circular"} =>
          /\ IsPrefix(val.errors, val'.errors)
          /\ val'.doc = val.doc]_vars

\* A validator that held an issue has run all four rules on a document with a
\* non-standard xref: the earlier issue is still the first, the new one
\* follows.
C24_Witness ==
    /\ val.pc = "other"
    /\ Len(val.doc.Records) = 1
    /\ val.doc.Records[1].XRef = <<"@", "I", "_", "1", "@">>
    /\ Len(val.errors) = 2
    /\ val.errors[1].Code = "PRIOR"
    /\ val.errors[2].Code = "NON_STANDARD_XREF"

\* A decoded text has issues of three rules, in the order of the rules.
C24_WitnessThreeRules ==
    /\ val.pc = "other"
    /\ val.texts # <<>>
    /\ Len(val.errors) = 3
    /\ val.errors[1].Code = "DEPRECATED_TAG"
    /\ val.errors[2].Code = "NON_STANDARD_XREF"
    /\ val.errors[3].Code = "INVALID_DATE"

\* The level-0 lines of the text between its HEAD and its TRLR: the data
\* records.
DataRecordLines ==
    {i \in 1..Len(val.texts) :
        /\ Len(val.texts[i]) >= 2
        /\ val.texts[i][1] = "0" /\ val.texts[i][2] = SP
        /\ val.texts[i] \notin {tHEAD, tTRLR}}

Decoded == val.texts # <<>> /\ val.pc # "decode"

C25_WitnessNoRecords ==
    /\ Decoded
    /\ val.texts = <<tHEAD, <<"1", " ", "G", "E", "D", "C">>, <<"2", " ", "V", "E", "R", "S", " ", "5", ".", "5">>, tTRLR>>
    /\ val.doc.Records = <<>>
    /\ val.doc.Header.Version = "5.5"

\* Within the search from one root no individual is entered twice, and the
\* frames on the stack are those of the individuals being visited.
ExpandedOnce ==
    /\ \A i, j \in 1..Len(val.search.expanded) :
          val.search.expanded[i] = val.search.expanded[j] => i = j
    /\ Len(val.search.stack) <= Len(Individuals(val.doc))
    /\ val.search.visiting \cap val.search.visited = {}

\* The turns of the loop over the parents that a search may still take: one
\* more than its parents for every individual not yet entered, and for every
\* frame on the stack the parents still to come and the return.
Turns(x) == Len(Parents(val.doc, IndividualOf(val.doc, x))) + 1

\* The sum of the values of a function.
RECURSIVE SumOf(_)
SumOf(f) ==
    IF DOMAIN f = {} THEN 0
    ELSE LET x == CHOOSE y \in DOMAIN f : TRUE IN
         f[x] + SumOf([y \in (DOMAIN f) \ {x} |-> f[y]])

AllTurns == SumOf([x \in IndividualXRefs |-> Turns(x)])

TurnsLeft ==
    LET s       == val.search
        entered == {s.expanded[i] : i \in 1..Len(s.expanded)}
    IN  IF s.stack = <<>> THEN AllTurns + 1
        ELSE SumOf([x \in IndividualXRefs \ entered |-> Turns(x)])
             + SumOf([n \in 1..Len(s.stack) |->
                         Len(s.stack[n].parents) - s.stack[n].i + 2])

\* The steps validateCircularRelationships may still take: the turns left for
\* the root in hand and every turn of the roots to come.
StepsLeft ==
    IF val.pc # "circular" THEN 0
    ELSE 1 + TurnsLeft + (Len(Individuals(val.doc)) + 1 - val.search.k) * (AllTurns + 2)

\* The steps left when validateCircularRelationships begins.
StepBudget == 1 + (AllTurns + 1) + Len(Individuals(val.doc)) * (AllTurns + 2)

\* C29: the circular-ancestry search ends on every document, with cycles that
\* pass through the root or not and with individuals that are their own
\* parent: no individual is entered twice for one root, and every step taken
\* lowers the count of the steps left, which starts at a number the document
\* fixes and never goes below zero.
C29_SearchTerminates ==
    /\ ExpandedOnce
    /\ StepsLeft >= 0
    /\ val.steps + StepsLeft <= StepBudget

\* The search from @I1@ met the cycle of @I2@ and @I3@, which @I1@ is not part
\* of, and ended: @I2@ and @I3@ have an issue, @I1@ has none.
C29_Witness ==
    /\ val.pc = "done"
    /\ IndividualXRefs = {<<"@", "I", "1", "@">>, <<"@", "I", "2", "@">>, <<"@", "I", "3", "@">>}
    /\ ParentSet(<<"@", "I", "1", "@">>) = {<<"@", "I", "2", "@">>}
    /\ ParentSet(<<"@", "I", "2", "@">>) = {<<"@", "I", "3", "@">>}
    /\ ParentSet(<<"@", "I", "3", "@">>) = {<<"@", "I", "2", "@">>}
    /\ CircularIssuesFor(<<"@", "I", "1", "@">>) = {}
    /\ Cardinality(CircularIssuesFor(<<"@", "I", "2", "@">>)) = 1

\* An individual that is its own father and mother was validated.
C29_WitnessOwnParent ==
    /\ val.pc = "done"
    /\ IndividualXRefs = {<<"@", "I", "1", "@">>, <<"@", "I", "2", "@">>, <<"@", "I", "3", "@">>}
    /\ ParentSet(<<"@", "I", "1", "@">>) = {<<"@", "I", "1", "@">>}
    /\ Len(Parents(val.doc, IndividualOf(val.doc, <<"@", "I", "1", "@">>))) = 2
    /\ Cardinality(CircularIssuesFor(<<"@", "I", "1", "@">>)) = 1
(***************************************************************************)
(* Export: the intermediate model, its links, its issues and its files     *)
(***************************************************************************)
\* Keys, xrefs, roles and paths are strings of characters, since the code
\* trims, concatenates and compares them.  The documents exported here have
\* no sources, notes, citations, places or dates, so the parts of the build
\* that read them add nothing and are left out.

\* strings.Trim(xref, "@")
trimXRef(xref) ==
    LET kept == {i \in 1..Len(xref) : xref[i] # "@"}
    IN  IF kept = {} THEN <<>> ELSE SubSeq(xref, Min(kept), Max(kept))

\* personKey(xref), groupKey(xref) and eventKey(ownerXRef, tag, index)
personKey(xref) == IF xref = <<>> THEN <<>> ELSE <<"p", "_">> \o trimXRef(xref)

groupKey(xref) == IF xref = <<>> THEN <<>> ELSE <<"g", "_">> \o trimXRef(xref)

eventKey(ownerXRef, tag, index) ==
    <<"e", "_">> \o trimXRef(IF ownerXRef = <<>> THEN <<"U", "N", "K", "N", "O", "W", "N">> ELSE ownerXRef)
          \o <<"_">> \o (IF tag = <<>> THEN <<"E", "V", "E", "N">> ELSE tag)
          \o <<"_">> \o Itoa(index)

\* "m[k] = v" on a Go map, a function from the keys it holds.
MapPut(m, k, v) == [x \in (DOMAIN m) \cup {k} |-> IF x = k THEN v ELSE m[x]]

\* "&IntermediateModel{...}" at the head of BuildIntermediateModel.
NewIntermediateModel ==
    [nil |-> FALSE, Persons |-> <<>>, Events |-> <<>>, Groups |-> <<>>,
     PersonEventLinks |-> <<>>, PersonParentLinks |-> <<>>,
     GroupPersonLinks |-> <<>>, EntityCitationLinks |-> <<>>,
     Issues |-> <<>>, EventKeyByGedcomPath |-> <<>>,
     PersonKeyByXRef |-> <<>>, GroupKeyByXRef |-> <<>>]

\* (m *IntermediateModel).personKey(xref) and .groupKey(xref): a key a map does
\* not hold reads as "".
m_personKey(m, xref) ==
    IF xref = <<>> THEN <<>>
    ELSE IF xref \in DOMAIN m.PersonKeyByXRef THEN m.PersonKeyByXRef[xref]
    ELSE <<>>

m_groupKey(m, xref) ==
    IF xref = <<>> THEN <<>>
    ELSE IF xref \in DOMAIN m.GroupKeyByXRef THEN m.GroupKeyByXRef[xref]
    ELSE <<>>

\* An Issue of the export.
ExportIssue(severity, entityType, entityKey, xref, path, code, message, raw) ==
    [Severity |-> severity, EntityType |-> entityType, EntityKey |-> entityKey,
     GedcomXRef |-> xref, GedcomPath |-> path, IssueCode |-> code,
     Message |-> message, RawValue |-> raw]

\* nextIndex(counter, tag) at the k-th event of an owner, the counter being
\* fresh for each owner: the events so far that count under the same tag.
nextIndex(events, k) ==
    LET tagOf(event) == IF event.Type = <<>> THEN <<"E", "V", "E", "N">> ELSE event.Type
    IN  Cardinality({j \in 1..k : tagOf(events[j]) = tagOf(events[k])})

\* The members a family names, in the order the code visits them.
familyMembers(family) ==
    <<[xref |-> family.Husband, role |-> <<"H", "U", "S", "B">>],
      [xref |-> family.Wife, role |-> <<"W", "I", "F", "E">>]>>
    \o [i \in 1..Len(family.Children) |-> [xref |-> family.Children[i], role |-> <<"C", "H", "I", "L">>]]

\* addEventForIndividual(individual, event, counter) for the k-th event.
addEventForIndividual(m, individual, k) ==
    LET ownerXRef == individual.XRef
        tag == IF individual.Events[k].Type = <<>> THEN <<"E", "V", "E", "N">>
               ELSE individual.Events[k].Type
        index == nextIndex(individual.Events, k)
        key == eventKey(ownerXRef, tag, index)
        gedcomPathForPersonEvent(xref, t, n) ==
            <<"I", "N", "D", "I", "(">> \o xref \o <<")", ".">> \o t \o <<"[">> \o Itoa(n) \o <<"]">>
        path == gedcomPathForPersonEvent(ownerXRef, tag, index)
        m1 == [m EXCEPT !.EventKeyByGedcomPath = MapPut(@, path, key),
                        !.Events = Append(@, [Key |-> key, GedcomXRef |-> ownerXRef,
                                              Type |-> tag, GedcomPath |-> path])]
        pk == m_personKey(m1, ownerXRef)
    IN  IF pk # <<>>
        THEN [m1 EXCEPT !.PersonEventLinks =
                 Append(@, [PersonKey |-> pk, Role |-> <<"S", "E", "L", "F">>, EventKey |-> key,
                            Seq |-> 1, GedcomPath |-> path])]
        ELSE m1

\* addFamilyEventLinks(family, eventKey, path)
addFamilyEventLinks(m, family, eventKey0, path) ==
    LET mem == familyMembers(family)
        RECURSIVE addLink(_, _, _)
        addLink(mm, i, seq) ==
            IF i > Len(mem) THEN mm
            ELSE IF mem[i].xref = <<>> THEN addLink(mm, i + 1, seq)
            ELSE IF m_personKey(mm, mem[i].xref) = <<>>
            THEN addLink([mm EXCEPT !.Issues =
                             Append(@, ExportIssue("ERROR", "group", m_groupKey(mm, family.XRef),
                                        family.XRef, path, "UNRESOLVED_POINTER",
                                        "Family event references missing person",
                                        mem[i].xref))],
                         i + 1, seq)
            ELSE addLink([mm EXCEPT !.PersonEventLinks =
                             Append(@, [PersonKey |-> m_personKey(mm, mem[i].xref),
                                        Role |-> mem[i].role, EventKey |-> eventKey0,
                                        Seq |-> seq, GedcomPath |-> path])],
                         i + 1, seq + 1)
    IN  addLink(m, 1, 1)

\* addEventForFamily(family, event, counter) for the k-th event.
addEventForFamily(m, family, k) ==
    LET ownerXRef == family.XRef
        tag == IF family.Events[k].Type = <<>> THEN <<"E", "V", "E", "N">>
               ELSE family.Events[k].Type
        index == nextIndex(family.Events, k)
        key == eventKey(ownerXRef, tag, index)
        gedcomPathForFamilyEvent(xref, t, n) ==
            <<"F", "A", "M", "(">> \o xref \o <<")", ".">> \o t \o <<"[">> \o Itoa(n) \o <<"]">>
        path == gedcomPathForFamilyEvent(ownerXRef, tag, index)
        m1 == [m EXCEPT !.EventKeyByGedcomPath = MapPut(@, path, key),
                        !.Events = Append(@, [Key |-> key, GedcomXRef |-> ownerXRef,
                                              Type |-> tag, GedcomPath |-> path])]
    IN  addFamilyEventLinks(m1, family, key, path)

\* collectGroupLinks with a link added for a member that has no key.
collectGroupLinksUnchecked(m, family) ==
    LET gk == m_groupKey(m, family.XRef)
        mem == familyMembers(family)
        RECURSIVE addGroupLink(_, _, _)
        addGroupLink(mm, i, seq) ==
            IF i > Len(mem) THEN mm
            ELSE IF mem[i].xref = <<>> THEN addGroupLink(mm, i + 1, seq)
            ELSE addGroupLink([mm EXCEPT !.GroupPersonLinks =
                                  Append(@, [GroupKey |-> gk,
                                             PersonKey |-> m_personKey(mm, mem[i].xref),
                                             Role |-> mem[i].role, Seq |-> seq])],
                              i + 1, seq + 1)
    IN  addGroupLink(m, 1, 1)

\* collectGroupLinks(family)
collectGroupLinks(m, family) ==
    LET gk == m_groupKey(m, family.XRef)
        mem == familyMembers(family)
        gedcomPathForGroup(xref, tag) == <<"F", "A", "M", "(">> \o xref \o <<")", ".">> \o tag
        RECURSIVE addGroupLink(_, _, _)
        addGroupLink(mm, i, seq) ==
            IF i > Len(mem) THEN mm
            ELSE IF mem[i].xref = <<>> THEN addGroupLink(mm, i + 1, seq)
            ELSE IF m_personKey(mm, mem[i].xref) = <<>>
            THEN addGroupLink([mm EXCEPT !.Issues =
                                  Append(@, ExportIssue("ERROR", "group", gk, family.XRef,
                                             gedcomPathForGroup(family.XRef, mem[i].role),
                                             "UNRESOLVED_POINTER",
                                             "Family member reference points to missing person",
                                             mem[i].xref))],
                              i + 1, seq)
            ELSE addGroupLink([mm EXCEPT !.GroupPersonLinks =
                                  Append(@, [GroupKey |-> gk,
                                             PersonKey |-> m_personKey(mm, mem[i].xref),
                                             Role |-> mem[i].role, Seq |-> seq])],
                              i + 1, seq + 1)
    IN  addGroupLink(m, 1, 1)

\* collectParentLinks(family): for each child, the husband and then the wife.
collectParentLinks(m, family) ==
    LET gedcomPathForGroup(xref, tag) == <<"F", "A", "M", "(">> \o xref \o <<")", ".">> \o tag
        groupPath == gedcomPathForGroup(family.XRef, <<"C", "H", "I", "L">>)
        pairs == [n \in 1..(2 * Len(family.Children)) |->
                    [child |-> family.Children[(n + 1) \div 2],
                     parent |-> IF n % 2 = 1 THEN family.Husband ELSE family.Wife,
                     parentType |-> IF n % 2 = 1 THEN <<"H", "U", "S", "B">> ELSE <<"W", "I", "F", "E">>]]
        unresolved(mm, message, raw) ==
            [mm EXCEPT !.Issues =
                Append(@, ExportIssue("ERROR", "group", m_groupKey(mm, family.XRef),
                           family.XRef, groupPath, "UNRESOLVED_POINTER", message, raw))]
        RECURSIVE addParent(_, _)
        addParent(mm, n) ==
            IF n > Len(pairs) THEN mm
            ELSE IF pairs[n].child = <<>> \/ pairs[n].parent = <<>> THEN addParent(mm, n + 1)
            ELSE IF m_personKey(mm, pairs[n].child) = <<>>
            THEN addParent(unresolved(mm, "Family child reference points to missing person",
                                      pairs[n].child), n + 1)
            ELSE IF m_personKey(mm, pairs[n].parent) = <<>>
            THEN addParent(unresolved(mm, "Family parent reference points to missing person",
                                      pairs[n].parent), n + 1)
            ELSE addParent([mm EXCEPT !.PersonParentLinks =
                               Append(@, [ChildPersonKey |-> m_personKey(mm, pairs[n].child),
                                          ParentType |-> pairs[n].parentType,
                                          ParentPersonKey |-> m_personKey(mm, pairs[n].parent),
                                          GedcomPath |-> groupPath])],
                           n + 1)
    IN  addParent(m, 1)

\* doc.Individuals(), doc.Families() and doc.GetFamily(xref) of a document
\* whose records carry their entities.
exportIndividuals(d) ==
    LET at == [i \in 1..Len(d.Records) |-> d.Records[i]]
        RECURSIVE from(_)
        from(i) == IF i > Len(at) THEN <<>>
                   ELSE IF ~at[i].nil /\ at[i].Type = <<"I", "N", "D", "I">> THEN <<at[i].Entity>> \o from(i + 1)
                   ELSE from(i + 1)
    IN  from(1)

exportFamilies(d) ==
    LET at == [i \in 1..Len(d.Records) |-> d.Records[i]]
        RECURSIVE from(_)
        from(i) == IF i > Len(at) THEN <<>>
                   ELSE IF ~at[i].nil /\ at[i].Type = <<"F", "A", "M">> THEN <<at[i].Entity>> \o from(i + 1)
                   ELSE from(i + 1)
    IN  from(1)

GetFamily(d, xref) ==
    IF ~d.XRefMap.nil /\ xref \in DOMAIN d.XRefMap.m
          /\ d.Records[d.XRefMap.m[xref]].Type = <<"F", "A", "M">>
    THEN "family" ELSE "nil"

\* a < b on Go strings, by the bytes of the characters keys are made of
\* (digits, letters, "@", "_" and "|").
lessString(a, b) ==
    LET UpperCase == <<"A", "B", "C", "D", "E", "F", "G", "H", "I", "J", "K", "L", "M", "N", "O", "P", "Q", "R", "S", "T", "U", "V", "W", "X", "Y", "Z">>
        LowerCase == <<"a", "b", "c", "d", "e", "f", "g", "h", "i", "j", "k", "l", "m", "n", "o", "p", "q", "r", "s", "t", "u", "v", "w", "x", "y", "z">>
        byteOf(c) ==
            IF c \in Digits THEN 48 + DigitVal(c)
            ELSE IF c = "@" THEN 64
            ELSE IF \E i \in 1..26 : UpperCase[i] = c
                 THEN 64 + (CHOOSE i \in 1..26 : UpperCase[i] = c)
            ELSE IF c = "_" THEN 95
            ELSE IF \E i \in 1..26 : LowerCase[i] = c
                 THEN 96 + (CHOOSE i \in 1..26 : LowerCase[i] = c)
            ELSE 124
    IN  \E i \in 1..Len(b) :
            /\ \A j \in 1..(i - 1) : j <= Len(a) /\ a[j] = b[j]
            /\ (i > Len(a) \/ byteOf(a[i]) < byteOf(b[i]))

\* sort.Slice(rows, less): the sort is not stable, so rows that compare equal
\* come out in any order; the result is the set of the orders it may leave.
sortSlice(rows, less(_, _)) ==
    LET S == {rows[i] : i \in 1..Len(rows)}
        lt == [a \in S, b \in S |-> less(a, b)]
        RECURSIVE sorts(_)
        sorts(r) ==
            IF r = <<>> THEN {<<>>}
            ELSE LET firsts == {i \in 1..Len(r) : \A j \in 1..Len(r) : ~lt[r[j], r[i]]}
                 IN  UNION {{<<r[i]>> \o t :
                                t \in sorts(SubSeq(r, 1, i - 1) \o SubSeq(r, i + 1, Len(r)))} :
                            i \in firsts}
    IN  sorts(rows)

\* BuildIntermediateModel(doc), after ensureXRefMap(doc): its loops over the
\* individuals and the families and its sorts; the result is the set of the
\* models it may return, one for each order the sorts may leave.
BuildIntermediateModel(d) ==
    IF d.nil THEN {NewIntermediateModel}
    ELSE LET individuals == exportIndividuals(d)
             families == exportFamilies(d)
             gedcomPathForPerson(xref, tag) == <<"I", "N", "D", "I", "(">> \o xref \o <<")", ".">> \o tag
             RECURSIVE personEvents(_, _, _)
             personEvents(m, individual, k) ==
                 IF k > Len(individual.Events) THEN m
                 ELSE personEvents(addEventForIndividual(m, individual, k), individual, k + 1)
             RECURSIVE famc(_, _, _)
             famc(m, individual, k) ==
                 IF k > Len(individual.ChildInFamilies) THEN m
                 ELSE IF individual.ChildInFamilies[k] = <<>> THEN famc(m, individual, k + 1)
                 ELSE IF GetFamily(d, individual.ChildInFamilies[k]) = "nil"
                 THEN famc([m EXCEPT !.Issues =
                               Append(@, ExportIssue("ERROR", "person", personKey(individual.XRef),
                                          individual.XRef,
                                          gedcomPathForPerson(individual.XRef, <<"F", "A", "M", "C">>),
                                          "UNRESOLVED_POINTER",
                                          "Child-in-family reference points to missing family record",
                                          individual.ChildInFamilies[k]))],
                           individual, k + 1)
                 ELSE famc(m, individual, k + 1)
             RECURSIVE persons(_, _)
             persons(m, i) ==
                 IF i > Len(individuals) THEN m
                 ELSE LET individual == individuals[i]
                          key == personKey(individual.XRef)
                          m1 == [m EXCEPT !.PersonKeyByXRef = MapPut(@, individual.XRef, key),
                                          !.Persons = Append(@, [Key |-> key,
                                                                 GedcomXRef |-> individual.XRef])]
                      IN  persons(famc(personEvents(m1, individual, 1), individual, 1), i + 1)
             RECURSIVE familyEvents(_, _, _)
             familyEvents(m, family, k) ==
                 IF k > Len(family.Events) THEN m
                 ELSE familyEvents(addEventForFamily(m, family, k), family, k + 1)
             RECURSIVE groups(_, _)
             groups(m, i) ==
                 IF i > Len(families) THEN m
                 ELSE LET family == families[i]
                          key == groupKey(family.XRef)
                          m1 == [m EXCEPT !.GroupKeyByXRef = MapPut(@, family.XRef, key),
                                          !.Groups = Append(@, [Key |-> key,
                                                                GedcomXRef |-> family.XRef,
                                                                Type |-> <<"F", "A", "M">>])]
                      IN  groups(collectParentLinks(
                                     collectGroupLinks(familyEvents(m1, family, 1), family),
                                     family),
                                 i + 1)
             u == groups(persons(NewIntermediateModel, 1), 1)
             lessFields(a, b) ==
                 IF a[1] # b[1] THEN lessString(a[1], b[1])
                 ELSE IF a[2] # b[2] THEN lessString(a[2], b[2])
                 ELSE lessString(a[3], b[3])
             byKey(a, b) == lessString(a.Key, b.Key)
             byPersonEvent(a, b) ==
                 lessFields(<<a.PersonKey, a.EventKey, a.Role>>, <<b.PersonKey, b.EventKey, b.Role>>)
             byPersonParent(a, b) ==
                 lessFields(<<a.ChildPersonKey, a.ParentPersonKey, a.ParentType>>,
                            <<b.ChildPersonKey, b.ParentPersonKey, b.ParentType>>)
             byGroupPerson(a, b) ==
                 lessFields(<<a.GroupKey, a.PersonKey, a.Role>>, <<b.GroupKey, b.PersonKey, b.Role>>)
         IN  {[u EXCEPT !.Persons = ps, !.Events = es, !.Groups = gs,
                        !.PersonEventLinks = pel, !.PersonParentLinks = ppl,
                        !.GroupPersonLinks = gpl] :
                 ps \in sortSlice(u.Persons, byKey),
                 es \in sortSlice(u.Events, byKey),
                 gs \in sortSlice(u.Groups, byKey),
                 pel \in sortSlice(u.PersonEventLinks, byPersonEvent),
                 ppl \in sortSlice(u.PersonParentLinks, byPersonParent),
                 gpl \in sortSlice(u.GroupPersonLinks, byGroupPerson)}

\* The key functions ValidateIntermediate and the dedupe functions share.
personEventLinkKey(link) == link.PersonKey \o <<"|">> \o link.Role \o <<"|">> \o link.EventKey

personParentLinkKey(link) ==
    link.ChildPersonKey \o <<"|">> \o link.ParentType \o <<"|">> \o link.ParentPersonKey

groupPersonLinkKey(link) == link.GroupKey \o <<"|">> \o link.PersonKey \o <<"|">> \o link.Role

entityCitationLinkKey(link) ==
    link.EntityType \o <<"|">> \o link.EntityKey \o <<"|">> \o link.CitationKey

\* detectDuplicateLinks that reports a repeated key once.
detectDuplicateLinksOncePerKey(keys, entityType) ==
    LET RECURSIVE walk(_, _, _)
        walk(i, seen, issues) ==
            IF i > Len(keys) THEN issues
            ELSE IF keys[i] \in seen
                 THEN walk(i + 1, seen,
                           IF \E n \in 1..Len(issues) : issues[n].EntityKey = keys[i]
                           THEN issues
                           ELSE Append(issues,
                                    ExportIssue("WARN", entityType, keys[i], <<>>, <<>>,
                                        "DUPLICATE_LINK",
                                        "Duplicate link encountered; keeping first occurrence",
                                        <<>>)))
            ELSE walk(i + 1, seen \cup {keys[i]}, issues)
    IN  walk(1, {}, <<>>)

\* detectDuplicateLinks(links, keyFn, entityType), given the keys of the links.
detectDuplicateLinks(keys, entityType) ==
    LET RECURSIVE walk(_, _, _)
        walk(i, seen, issues) ==
            IF i > Len(keys) THEN issues
            ELSE IF keys[i] \in seen
                 THEN walk(i + 1, seen,
                           Append(issues,
                               ExportIssue("WARN", entityType, keys[i], <<>>, <<>>,
                                   "DUPLICATE_LINK",
                                   "Duplicate link encountered; keeping first occurrence",
                                   <<>>)))
            ELSE walk(i + 1, seen \cup {keys[i]}, issues)
    IN  walk(1, {}, <<>>)

\* ValidateIntermediate(model): the issues it returns; nil reads as no issue.
ValidateIntermediate(model) ==
    IF model.nil THEN <<>>
    ELSE LET linkKeys(links, keyFn(_)) == [i \in 1..Len(links) |-> keyFn(links[i])]
         IN
         model.Issues
         \o detectDuplicateLinks(linkKeys(model.PersonEventLinks, personEventLinkKey),
                                 "person_event_link")
         \o detectDuplicateLinks(linkKeys(model.PersonParentLinks, personParentLinkKey),
                                 "person_parent_link")
         \o detectDuplicateLinks(linkKeys(model.GroupPersonLinks, groupPersonLinkKey),
                                 "group_person_link")
         \o detectDuplicateLinks(linkKeys(model.EntityCitationLinks, entityCitationLinkKey),
                                 "entity_citation_link")

\* The loop the four dedupe functions share.
dedupeRows(rows, keyFn(_)) ==
    LET RECURSIVE walk(_, _, _)
        walk(i, seen, result) ==
            IF i > Len(rows) THEN result
            ELSE IF keyFn(rows[i]) \in seen THEN walk(i + 1, seen, result)
            ELSE walk(i + 1, seen \cup {keyFn(rows[i])}, Append(result, rows[i]))
    IN  walk(1, {}, <<>>)

\* dedupePersonEventLinks, dedupePersonParentLinks, dedupeGroupPersonLinks
\* and dedupeEntityCitationLinks
dedupePersonEventLinks(rows) == dedupeRows(rows, personEventLinkKey)

dedupePersonParentLinks(rows) == dedupeRows(rows, personParentLinkKey)

dedupeGroupPersonLinks(rows) == dedupeRows(rows, groupPersonLinkKey)

dedupeEntityCitationLinks(rows) == dedupeRows(rows, entityCitationLinkKey)

\* WriteCSVBundle(model, issues, outputDir, options): its error and the rows
\* of the link files it writes; a file an option leaves out is not written.
\* The files of persons, events, places, groups, sources, citations and
\* issues take their rows from their own lists and are left out.
NoFile == [written |-> FALSE, rows |-> <<>>]

WriteCSVBundle(model, issues, options) ==
    IF model.nil
    THEN [err |-> "model is nil", person_event_links |-> NoFile,
          person_parent_links |-> NoFile, group_person_links |-> NoFile,
          entity_citation_links |-> NoFile]
    ELSE LET pel == dedupePersonEventLinks(model.PersonEventLinks)
             ppl == dedupePersonParentLinks(model.PersonParentLinks)
             gpl == dedupeGroupPersonLinks(model.GroupPersonLinks)
             ecl == dedupeEntityCitationLinks(model.EntityCitationLinks)
         IN  [err |-> "nil",
              person_event_links |->
                  [written |-> TRUE,
                   rows |-> [i \in 1..Len(pel) |->
                               <<pel[i].PersonKey, pel[i].Role, pel[i].EventKey,
                                 Itoa(pel[i].Seq), pel[i].GedcomPath>>]],
              person_parent_links |->
                  [written |-> TRUE,
                   rows |-> [i \in 1..Len(ppl) |->
                               <<ppl[i].ChildPersonKey, ppl[i].ParentType,
                                 ppl[i].ParentPersonKey, ppl[i].GedcomPath>>]],
              group_person_links |->
                  IF options.IncludeGroups
                  THEN [written |-> TRUE,
                        rows |-> [i \in 1..Len(gpl) |->
                                    <<gpl[i].GroupKey, gpl[i].PersonKey, gpl[i].Role,
                                      Itoa(gpl[i].Seq)>>]]
                  ELSE NoFile,
              entity_citation_links |->
                  IF options.IncludeSources
                  THEN [written |-> TRUE,
                        rows |-> [i \in 1..Len(ecl) |->
                                    <<ecl[i].EntityType, ecl[i].EntityKey,
                                      ecl[i].CitationKey, Itoa(ecl[i].Seq)>>]]
                  ELSE NoFile]

\* The most children of an exported family, and the most rows of a link
\* table of a model built by hand.
MaxChildren == 2
MaxLinks == 3

\* Individuals and families as the builder hands them over: an individual
\* with its events and FAMC links, a family with its members and events.
ExportIndividual(xref, events, famc) ==
    [nil |-> FALSE, XRef |-> xref, Type |-> <<"I", "N", "D", "I">>,
     Entity |-> [XRef |-> xref, Events |-> events, ChildInFamilies |-> famc]]

ExportEvent(tag) == [Type |-> tag]

IndividualLists ==
    {<<>>,
     <<ExportIndividual(<<"@", "I", "1", "@">>, <<>>, <<>>)>>,
     <<ExportIndividual(<<"@", "I", "1", "@">>, <<>>, <<>>), ExportIndividual(<<"@", "I", "2", "@">>, <<>>, <<>>)>>,
     <<ExportIndividual(<<"@", "I", "2", "@">>, <<ExportEvent(<<"B", "I", "R", "T">>), ExportEvent(<<"B", "I", "R", "T">>)>>, <<>>),
       ExportIndividual(<<"@", "I", "1", "@">>, <<>>, <<<<"@", "F", "9", "@">>>>)>>,
     <<ExportIndividual(<<"I", "1">>, <<>>, <<>>), ExportIndividual(<<"@", "I", "1", "@">>, <<>>, <<>>)>>,
     <<ExportIndividual(<<>>, <<ExportEvent(<<>>)>>, <<>>),
       ExportIndividual(<<"@", "I", "1", "@">>, <<>>, <<<<"@", "F", "1", "@">>, <<>>>>)>>}

ExportFamilies ==
    {[nil |-> FALSE, XRef |-> x, Type |-> <<"F", "A", "M">>,
      Entity |-> [XRef |-> x, Husband |-> h, Wife |-> w, Children |-> c, Events |-> e]] :
        x \in {<<"@", "F", "1", "@">>, <<>>},
        h \in {<<>>, <<"@", "I", "1", "@">>, <<"@", "I", "9", "@">>},
        w \in {<<>>, <<"@", "I", "2", "@">>},
        c \in UNION {[1..n -> {<<>>, <<"@", "I", "1", "@">>, <<"@", "I", "2", "@">>, <<"@", "I", "9", "@">>}] : n \in 0..MaxChildren},
        e \in {<<>>, <<ExportEvent(<<"M", "A", "R", "R">>)>>}}

ExportDocs ==
    {[nil |-> FALSE, Records |-> is \o fs, XRefMap |-> NilMap] :
        is \in IndividualLists, fs \in {<<>>} \cup {<<f>> : f \in ExportFamilies}}

\* Link rows of a model built by hand, as TestDuplicateLinkHandling builds
\* one: three fields that make the key and a fourth that tells rows of one
\* key apart.  Two of the keys are made of different fields that join to
\* the same string.
LinkFields ==
    {<<<<"a">>, <<"b">>, <<"c">>, 1>>, <<<<"a">>, <<"b">>, <<"c">>, 2>>, <<<<"x">>, <<"b">>, <<"c">>, 1>>,
     <<<<"a", "|", "b">>, <<"c">>, <<"d">>, 1>>, <<<<"a">>, <<"b", "|", "c">>, <<"d">>, 1>>}

LinkLists == UNION {[1..n -> LinkFields] : n \in 0..MaxLinks}

asPersonEventLinks(l) ==
    [i \in 1..Len(l) |-> [PersonKey |-> l[i][1], Role |-> l[i][2], EventKey |-> l[i][3],
                          Seq |-> l[i][4], GedcomPath |-> <<>>]]

asPersonParentLinks(l) ==
    [i \in 1..Len(l) |-> [ChildPersonKey |-> l[i][1], ParentType |-> l[i][2],
                          ParentPersonKey |-> l[i][3], GedcomPath |-> Itoa(l[i][4])]]

asGroupPersonLinks(l) ==
    [i \in 1..Len(l) |-> [GroupKey |-> l[i][1], PersonKey |-> l[i][2], Role |-> l[i][3],
                          Seq |-> l[i][4]]]

asEntityCitationLinks(l) ==
    [i \in 1..Len(l) |-> [EntityType |-> l[i][1], EntityKey |-> l[i][2],
                          CitationKey |-> l[i][3], Seq |-> l[i][4]]]

\* The models built by hand: one table takes any list of rows, the other
\* three are empty or hold one repeated row; the model comes with or without
\* an issue of its own.  A nil model is one of them.
PriorIssue ==
    ExportIssue("WARN", "person_event_link", <<"a", "|", "b", "|", "c">>, <<>>, <<>>, "DUPLICATE_LINK",
                "Duplicate link encountered; keeping first occurrence", <<>>)

HandModels ==
    {[NewIntermediateModel EXCEPT !.nil = TRUE]}
    \cup
    {[NewIntermediateModel EXCEPT
         !.PersonEventLinks = asPersonEventLinks(IF t = 1 THEN l ELSE o),
         !.PersonParentLinks = asPersonParentLinks(IF t = 2 THEN l ELSE o),
         !.GroupPersonLinks = asGroupPersonLinks(IF t = 3 THEN l ELSE o),
         !.EntityCitationLinks = asEntityCitationLinks(IF t = 4 THEN l ELSE o),
         !.Issues = prior] :
        t \in 1..4, l \in LinkLists,
        o \in {<<>>, <<<<<<"x">>, <<"b">>, <<"c">>, 1>>, <<<<"x">>, <<"b">>, <<"c">>, 2>>>>},
        prior \in {<<>>, <<PriorIssue>>}}

NoExportModel == [NewIntermediateModel EXCEPT !.nil = TRUE]
NoOptions == [IncludeSources |-> FALSE, IncludePlaces |-> FALSE, IncludeGroups |-> FALSE]
NoFiles == WriteCSVBundle(NoExportModel, <<>>, NoOptions)

\* The export starts from a document (BuildIntermediateModel is to run) or
\* from a model built by hand (ValidateIntermediate is to run).
InitLinks ==
    /\ p = NewParser
    /\ pc = "idle"
    /\ lines = <<>>
    /\ errs = <<>>
    /\ prevLine = <<>>
    /\ hist = <<>>
    /\ ret = NoRet
    /\ doc = NoDoc
    /\ NoScan
    /\ scanner = NoScanner
    /\ dec = [pc |-> "none"]
    /\ val = [pc |-> "none"]
    /\ \/ \E d \in ExportDocs :
             exp = [pc |-> "doc", origin |-> "doc", doc |-> d, model |-> NoExportModel,
                    given |-> NoExportModel, issues |-> <<>>, options |-> NoOptions, files |-> NoFiles]
       \/ \E m \in HandModels :
             exp = [pc |-> "built", origin |-> "hand",
                    doc |-> [nil |-> TRUE, Records |-> <<>>, XRefMap |-> NilMap],
                    model |-> m, given |-> m, issues |-> <<>>, options |-> NoOptions,
                    files |-> NoFiles]

\* "model := BuildIntermediateModel(doc)"
BuildModel ==
    /\ exp.pc = "doc"
    /\ \E m \in BuildIntermediateModel(ensureXRefMap(exp.doc)) :
          exp' = [exp EXCEPT !.pc = "built", !.doc = ensureXRefMap(exp.doc), !.model = m,
                             !.given = m]
    /\ UNCHANGED <<parserVars, scanVars, scanner, dec, val>>

\* "issues := ValidateIntermediate(model)"
ValidateModel ==
    /\ exp.pc = "built"
    /\ exp' = [exp EXCEPT !.pc = "validated", !.issues = ValidateIntermediate(exp.model)]
    /\ UNCHANGED <<parserVars, scanVars, scanner, dec, val>>

\* "WriteCSVBundle(model, issues, outputDir, options)" with the optional
\* files all asked for or all left out.
WriteBundle ==
    /\ exp.pc = "validated"
    /\ \E on \in BOOLEAN :
          LET options == [IncludeSources |-> on, IncludePlaces |-> on, IncludeGroups |-> on]
          IN  exp' = [exp EXCEPT !.pc = "written", !.options = options,
                                 !.files = WriteCSVBundle(exp.model, exp.issues, options)]
    /\ UNCHANGED <<parserVars, scanVars, scanner, dec, val>>

NextLinks == BuildModel \/ ValidateModel \/ WriteBundle

SpecLinks == InitLinks /\ [][NextLinks]_vars

(***************************************************************************)
(* Properties of the export's links                                        *)
(***************************************************************************)
\* The model was built from a document.
ModelBuilt == exp.pc \in {"built", "validated", "written"} /\ exp.origin = "doc"

HasIndividual(xref) ==
    \E i \in 1..Len(exportIndividuals(exp.doc)) : exportIndividuals(exp.doc)[i].XRef = xref

\* The members of a family that name an individual of the document, and
\* those that name none.
ResolvedMembers(family) ==
    {i \in 1..Len(familyMembers(family)) :
        familyMembers(family)[i].xref # <<>> /\ HasIndividual(familyMembers(family)[i].xref)}

UnresolvedMembers(family) ==
    {i \in 1..Len(familyMembers(family)) :
        familyMembers(family)[i].xref # <<>> /\ ~HasIndividual(familyMembers(family)[i].xref)}

\* The child and parent pairs of a family that both name an individual.
ResolvedParentPairs(family) ==
    {pr \in (1..Len(family.Children)) \X {"Husband", "Wife"} :
        /\ family.Children[pr[1]] # <<>>
        /\ HasIndividual(family.Children[pr[1]])
        /\ family[pr[2]] # <<>>
        /\ HasIndividual(family[pr[2]])}

ColumnOf(rows, field) == {rows[i][field] : i \in 1..Len(rows)}

\* C30: after BuildIntermediateModel every person key of a link of the three
\* person tables is the non-empty key of a row of Persons and every group
\* key of GroupPersonLinks is the key of a row of Groups; a HUSB, WIFE or
\* CHIL xref of a family that names no individual record leaves an
\* UNRESOLVED_POINTER issue with that xref and no link row: the tables hold
\* one row for each reference that names an individual and no other.
C30_LinksResolve ==
    ModelBuilt =>
        LET m == exp.model
            individuals == exportIndividuals(exp.doc)
            families == exportFamilies(exp.doc)
        IN  /\ \A k \in ColumnOf(m.PersonEventLinks, "PersonKey")
                       \cup ColumnOf(m.PersonParentLinks, "ChildPersonKey")
                       \cup ColumnOf(m.PersonParentLinks, "ParentPersonKey")
                       \cup ColumnOf(m.GroupPersonLinks, "PersonKey") :
                   k # <<>> /\ k \in ColumnOf(m.Persons, "Key")
            /\ ColumnOf(m.GroupPersonLinks, "GroupKey") \subseteq ColumnOf(m.Groups, "Key")
            /\ \A f \in 1..Len(families) : \A i \in UnresolvedMembers(families[f]) :
                   \E n \in 1..Len(m.Issues) :
                       /\ m.Issues[n].IssueCode = "UNRESOLVED_POINTER"
                       /\ m.Issues[n].EntityType = "group"
                       /\ m.Issues[n].GedcomXRef = families[f].XRef
                       /\ m.Issues[n].RawValue = familyMembers(families[f])[i].xref
            /\ Len(m.GroupPersonLinks) =
                   SumOf([f \in 1..Len(families) |-> Cardinality(ResolvedMembers(families[f]))])
            /\ Len(m.PersonParentLinks) =
                   SumOf([f \in 1..Len(families) |-> Cardinality(ResolvedParentPairs(families[f]))])
            /\ Len(m.PersonEventLinks) =
                   SumOf([i \in 1..Len(individuals) |->
                             IF individuals[i].XRef = <<>> THEN 0 ELSE Len(individuals[i].Events)])
                   + SumOf([f \in 1..Len(families) |->
                               Len(families[f].Events) * Cardinality(ResolvedMembers(families[f]))])

\* The husband of a family with an event names no individual and its child
\* names one: the issue is there, and so are the child's links.
C30_Witness ==
    /\ ModelBuilt
    /\ Len(exportFamilies(exp.doc)) = 1
    /\ exportFamilies(exp.doc)[1].Husband = <<"@", "I", "9", "@">>
    /\ exportFamilies(exp.doc)[1].Wife = <<"@", "I", "2", "@">>
    /\ exportFamilies(exp.doc)[1].Children = <<<<"@", "I", "1", "@">>>>
    /\ Len(exportFamilies(exp.doc)[1].Events) = 1
    /\ HasIndividual(<<"@", "I", "1", "@">>)
    /\ ~HasIndividual(<<"@", "I", "2", "@">>)
    /\ \E n \in 1..Len(exp.model.Issues) :
          /\ exp.model.Issues[n].IssueCode = "UNRESOLVED_POINTER"
          /\ exp.model.Issues[n].RawValue = <<"@", "I", "9", "@">>
    /\ Len(exp.model.GroupPersonLinks) = 1
    /\ exp.model.GroupPersonLinks[1].PersonKey = <<"p", "_", "I", "1">>
    /\ Len(exp.model.PersonEventLinks) = 1
    /\ exp.model.PersonParentLinks = <<>>

\* Two individuals share a key and a family without an xref links them.
C30_WitnessSharedKey ==
    /\ ModelBuilt
    /\ HasIndividual(<<"I", "1">>)
    /\ HasIndividual(<<"@", "I", "1", "@">>)
    /\ Len(exportFamilies(exp.doc)) = 1
    /\ exportFamilies(exp.doc)[1].XRef = <<>>
    /\ Len(exp.model.GroupPersonLinks) = 2
    /\ ColumnOf(exp.model.GroupPersonLinks, "GroupKey") = {<<>>}

\* The issues ValidateIntermediate added to those of the model.
Emitted == SubSeq(exp.issues, Len(exp.model.Issues) + 1, Len(exp.issues))

\* The rows of a table that are the first of their key, in the table's order.
FirstOfKey(rows, keyFn(_)) ==
    LET idx == {i \in 1..Len(rows) : \A j \in 1..(i - 1) : keyFn(rows[j]) # keyFn(rows[i])}
        nth(k) == CHOOSE i \in idx : Cardinality({j \in idx : j <= i}) = k
    IN  [k \in 1..Cardinality(idx) |-> rows[nth(k)]]

\* One link table: an issue for each occurrence of a key after its first,
\* the deduplicated rows are the first of each key in order, the file holds
\* them, and the issues count the rows the file drops.
LinkTableChecked(rows, keyFn(_), dedupe(_), entityType, file, columns(_)) ==
    LET keys == {keyFn(rows[i]) : i \in 1..Len(rows)}
        mine == {n \in 1..Len(Emitted) : Emitted[n].EntityType = entityType}
    IN  /\ \A n \in mine :
               /\ Emitted[n].IssueCode = "DUPLICATE_LINK"
               /\ Emitted[n].Severity = "WARN"
               /\ Emitted[n].EntityKey \in keys
        /\ \A k \in keys :
               Cardinality({n \in mine : Emitted[n].EntityKey = k})
                   = Cardinality({i \in 1..Len(rows) : keyFn(rows[i]) = k}) - 1
        /\ dedupe(rows) = FirstOfKey(rows, keyFn)
        /\ Cardinality(mine) = Len(rows) - Len(dedupe(rows))
        /\ dedupe(dedupe(rows)) = dedupe(rows)
        /\ file.written =>
               file.rows = [i \in 1..Len(dedupe(rows)) |-> columns(dedupe(rows)[i])]

ModelValidated == exp.pc \in {"validated", "written"} /\ ~exp.model.nil

\* C26: for each of the four link tables ValidateIntermediate adds one
\* DUPLICATE_LINK issue for each occurrence of a link key after its first and
\* leaves the model as it was; the table written keeps the first occurrence
\* of each key in the order of the model, so the issues of a table count its
\* rows less its deduplicated rows, and deduplicating twice changes nothing.
C26_DuplicateLinks ==
    ModelValidated =>
        LET m == exp.model
            pelColumns(r) == <<r.PersonKey, r.Role, r.EventKey, Itoa(r.Seq), r.GedcomPath>>
            pplColumns(r) == <<r.ChildPersonKey, r.ParentType, r.ParentPersonKey, r.GedcomPath>>
            gplColumns(r) == <<r.GroupKey, r.PersonKey, r.Role, Itoa(r.Seq)>>
            eclColumns(r) == <<r.EntityType, r.EntityKey, r.CitationKey, Itoa(r.Seq)>>
        IN  /\ m = exp.given
            /\ SubSeq(exp.issues, 1, Len(m.Issues)) = m.Issues
            /\ \A n \in 1..Len(Emitted) :
                   Emitted[n].EntityType \in {"person_event_link", "person_parent_link",
                                              "group_person_link", "entity_citation_link"}
            /\ LinkTableChecked(m.PersonEventLinks, personEventLinkKey, dedupePersonEventLinks,
                                "person_event_link", exp.files.person_event_links, pelColumns)
            /\ LinkTableChecked(m.PersonParentLinks, personParentLinkKey, dedupePersonParentLinks,
                                "person_parent_link", exp.files.person_parent_links, pplColumns)
            /\ LinkTableChecked(m.GroupPersonLinks, groupPersonLinkKey, dedupeGroupPersonLinks,
                                "group_person_link", exp.files.group_person_links, gplColumns)
            /\ LinkTableChecked(m.EntityCitationLinks, entityCitationLinkKey,
                                dedupeEntityCitationLinks, "entity_citation_link",
                                exp.files.entity_citation_links, eclColumns)

\* Three links of one key, the first with seq 2: two issues, and the file of
\* the table holds the first row alone.
C26_Witness ==
    /\ exp.pc = "written"
    /\ ~exp.model.nil
    /\ exp.model.PersonEventLinks =
          asPersonEventLinks(<<<<<<"a">>, <<"b">>, <<"c">>, 2>>, <<<<"a">>, <<"b">>, <<"c">>, 1>>,
                               <<<<"a">>, <<"b">>, <<"c">>, 2>>>>)
    /\ exp.model.GroupPersonLinks = <<>>
    /\ exp.model.Issues = <<>>
    /\ Len(exp.issues) = 2
    /\ exp.issues[1].IssueCode = "DUPLICATE_LINK"
    /\ exp.issues[2].EntityKey = <<"a", "|", "b", "|", "c">>
    /\ exp.files.person_event_links.written
    /\ exp.files.person_event_links.rows = <<<<<<"a">>, <<"b">>, <<"c">>, <<"2">>, <<>>>>>>

\* Links of different fields whose keys are one string count as duplicates.
C26_WitnessJoinedKey ==
    /\ exp.pc = "written"
    /\ ~exp.model.nil
    /\ exp.model.EntityCitationLinks =
          asEntityCitationLinks(<<<<<<"a", "|", "b">>, <<"c">>, <<"d">>, 1>>, <<<<"a">>, <<"b", "|", "c">>, <<"d">>, 1>>>>)
    /\ exp.files.entity_citation_links.written
    /\ Len(exp.files.entity_citation_links.rows) = 1
    /\ \E n \in 1..Len(exp.issues) : exp.issues[n].EntityType = "entity_citation_link"

\* A family that names one child twice: the build leaves two group links of
\* one key and the validation reports the second.
C26_WitnessBuilt ==
    /\ exp.pc = "written"
    /\ exp.origin = "doc"
    /\ Len(exp.model.GroupPersonLinks) = 2
    /\ Len(dedupeGroupPersonLinks(exp.model.GroupPersonLinks)) = 1
    /\ \E n \in 1..Len(exp.issues) :
          /\ exp.issues[n].IssueCode = "DUPLICATE_LINK"
          /\ exp.issues[n].EntityType = "group_person_link"
          /\ exp.issues[n].EntityKey = <<"g", "_", "F", "1", "|", "p", "_", "I", "2", "|", "C", "H", "I", "L">>

====
